---------------------------- MODULE Spec2Model ----------------------------
(***************************************************************************)
(* A model of the hedge-fund-index repository: the in-memory search and    *)
(* aggregation engine (utils/search_utils.py), the ticker/sector cache     *)
(* (utils/ticker_mapping.py), the enrichment adapter (utils/yf_util.py)    *)
(* and the chunked positions table (utils/split_data.py,                   *)
(* utils/reassemble_data.py, utils/data_processor.py).                     *)
(*                                                                         *)
(* Text is modelled by TLA+ strings, character by character: lower(),      *)
(* upper(), strip(), replace(), the `in' substring test, the two regular   *)
(* expressions of the index builder and the ordering of file names are     *)
(* computed as Python computes them, over the characters of Ascii.         *)
(* A missing table cell (pandas NaN) is the value NaN.                     *)
(***************************************************************************)
EXTENDS Integers, Sequences, FiniteSets, TLC

VARIABLES
    \* HedgeFundSearchEngine (search_utils.py:13-19)
    coverpage_df,   \* rows [ACCESSION_NUMBER, FILINGMANAGER_NAME] of COVERPAGE.tsv
    infotable_df,   \* rows of INFOTABLE.tsv
    fund_lookup,    \* insertion-ordered dict: sequence of [key, items]
    ticker_lookup,  \* insertion-ordered dict: sequence of [key, items]
    loaded,         \* self.loaded
    result,         \* the last call of the engine and what it returned
    \* TickerMapping (ticker_mapping.py:9-12) and its callers
    csv_file,       \* the persisted cache: NoFile or the rows of the CSV file
    mapping,        \* self.mapping: normalized name -> entry
    today,          \* the date datetime.now() gives, as a day number
    caller,         \* per concurrent caller of add_mapping: its place and its df
    resolved,       \* the last enrichment call and what it returned
    openai_cache,   \* the .cache dicts of get_ticker_with_fallback and get_sector_with_fallback
    \* the data directory: a file is NoFile or its lines, the header first
    coverpage_file, \* COVERPAGE.tsv
    infotable_file, \* INFOTABLE.tsv
    chunk_files,    \* data/chunks: whether it exists, and file name -> lines
    submission_file,  \* SUBMISSION.tsv
    summarypage_file, \* SUMMARYPAGE.tsv
    metadata_file,    \* FORM13F_metadata.json
    loaded_rows     \* the last run of a chunk tool or loader and what it produced

searchVars == <<coverpage_df, infotable_df, fund_lookup, ticker_lookup, loaded, result>>
cacheVars == <<csv_file, mapping, today, caller, resolved, openai_cache>>
otherFiles == <<submission_file, summarypage_file, metadata_file>>
diskVars == <<coverpage_file, infotable_file, chunk_files, otherFiles, loaded_rows>>
vars == <<searchVars, cacheVars, diskVars>>

NaN == "<NaN>"
None == "<None>"
\* A file that is absent has no lines; a file that exists has its header line.
NoFile == <<>>
NoCall == [op |-> "none"]
\* A directory that is absent, and one that holds the files given.
NoDir == [exists |-> FALSE, files |-> <<>>]
Dir(files) == [exists |-> TRUE, files |-> files]

-----------------------------------------------------------------------------
(* Python strings *)

\* The characters of the model, in code-point order.
Ascii == " &,.0123456789ABCDEFGHIJKLMNOPQRSTUVWXYZ_abcdefghijklmnopqrstuvwxyz"
UpperChars == "ABCDEFGHIJKLMNOPQRSTUVWXYZ"
LowerChars == "abcdefghijklmnopqrstuvwxyz"
DigitChars == "0123456789"

Ch(s, i) == SubSeq(s, i, i)
CharsOf(s) == {Ch(s, i) : i \in 1..Len(s)}
IndexIn(c, s) == CHOOSE i \in 1..Len(s) : Ch(s, i) = c

\* ord(c)
Ord == [c \in CharsOf(Ascii) |-> IndexIn(c, Ascii)]
LowerOf == [c \in CharsOf(Ascii) |->
              IF c \in CharsOf(UpperChars) THEN Ch(LowerChars, IndexIn(c, UpperChars)) ELSE c]
UpperOf == [c \in CharsOf(Ascii) |->
              IF c \in CharsOf(LowerChars) THEN Ch(UpperChars, IndexIn(c, LowerChars)) ELSE c]

\* \s, \w and [A-Z]
WordChars == CharsOf(UpperChars) \cup CharsOf(LowerChars) \cup CharsOf(DigitChars) \cup {"_"}
UpperSet == CharsOf(UpperChars)
IsSpace(c) == c = " "
IsWordChar(c) == c \in WordChars
IsUpper(c) == c \in UpperSet

RECURSIVE MapChars(_, _)
MapChars(f, s) == IF s = "" THEN "" ELSE f[Ch(s, 1)] \o MapChars(f, Tail(s))

\* str.lower(), str.upper()
lower(s) == MapChars(LowerOf, s)
upper(s) == MapChars(UpperOf, s)

RECURSIVE lstrip(_)
lstrip(s) == IF s # "" /\ IsSpace(Ch(s, 1)) THEN lstrip(Tail(s)) ELSE s
RECURSIVE rstrip(_)
rstrip(s) == IF s # "" /\ IsSpace(Ch(s, Len(s))) THEN rstrip(SubSeq(s, 1, Len(s) - 1)) ELSE s
\* str.strip()
strip(s) == rstrip(lstrip(s))

\* str.replace(c, '') for a one-character c
RECURSIVE replace(_, _)
replace(s, c) ==
    IF s = "" THEN ""
    ELSE (IF Ch(s, 1) = c THEN "" ELSE Ch(s, 1)) \o replace(Tail(s), c)

\* q in s
Contains(s, q) == \E i \in 0..(Len(s) - Len(q)) : SubSeq(s, i + 1, i + Len(q)) = q

\* a < b for str
RECURSIVE StrLess(_, _)
StrLess(a, b) ==
    IF b = "" THEN FALSE
    ELSE IF a = "" THEN TRUE
    ELSE IF Ch(a, 1) = Ch(b, 1) THEN StrLess(Tail(a), Tail(b))
    ELSE Ord[Ch(a, 1)] < Ord[Ch(b, 1)]

\* re.findall(r'\b\w+\b', s): the maximal runs of word characters, in order.
RECURSIVE WordsFrom(_, _, _)
WordsFrom(s, i, cur) ==
    IF i > Len(s) THEN (IF cur = "" THEN <<>> ELSE <<cur>>)
    ELSE IF IsWordChar(Ch(s, i)) THEN WordsFrom(s, i + 1, cur \o Ch(s, i))
    ELSE (IF cur = "" THEN <<>> ELSE <<cur>>) \o WordsFrom(s, i + 1, "")
findall_words(s) == WordsFrom(s, 1, "")

\* re.findall(r'\b[A-Z]{1,5}\b', s): a match starts and ends at a word
\* boundary, so it is a whole run of word characters made of 1 to 5 capitals.
IsTickerWord(w) == Len(w) >= 1 /\ Len(w) <= 5 /\ \A i \in 1..Len(w) : IsUpper(Ch(w, i))
findall_tickers(s) == SelectSeq(findall_words(s), IsTickerWord)

-----------------------------------------------------------------------------
(* Tables and files *)

\* pd.read_csv: the first line is the header, the other lines are the rows.
read_csv(file) == Tail(file)

RECURSIVE SumOf(_, _)
SumOf(rows, col) == IF rows = <<>> THEN 0 ELSE rows[1][col] + SumOf(Tail(rows), col)

\* A head that keeps every row.
head_uncapped(rows, n) == rows

\* DataFrame.head(n) and list[:n], n >= 0
head(rows, n) == SubSeq(rows, 1, IF n < Len(rows) THEN n ELSE Len(rows))

Range(seq) == {seq[i] : i \in DOMAIN seq}

\* The orders sort_values(col, ascending=False) can leave the rows in: the
\* default sort is not stable, so rows of equal value come in any order.
sort_values_desc(rows, col) ==
    LET n == Len(rows)
        perms == {p \in [1..n -> 1..n] : \A i, j \in 1..n : i # j => p[i] # p[j]}
    IN  {[i \in 1..n |-> rows[p[i]]] : p \in
            {q \in perms : \A i \in 1..(n - 1) : rows[q[i]][col] >= rows[q[i + 1]][col]}}

\* The keys of a groupby, in the sorted order groupby gives them.
\* A key is a tuple of strings, compared as Python compares tuples.
RECURSIVE KeyLess(_, _)
KeyLess(a, b) ==
    IF b = <<>> THEN FALSE
    ELSE IF a = <<>> THEN TRUE
    ELSE IF a[1] = b[1] THEN KeyLess(Tail(a), Tail(b))
    ELSE StrLess(a[1], b[1])
RECURSIVE SortKeys(_)
SortKeys(keys) ==
    IF keys = {} THEN <<>>
    ELSE LET least == CHOOSE k \in keys : \A o \in keys \ {k} : KeyLess(k, o)
         IN  <<least>> \o SortKeys(keys \ {least})

\* agg 'first': the first value of the column that is not missing.
First(rows, col) ==
    LET present == SelectSeq(rows, LAMBDA r : r[col] # NaN)
    IN  IF present = <<>> THEN NaN ELSE present[1][col]

-----------------------------------------------------------------------------
(* HedgeFundSearchEngine: the lookup indexes *)

HasKey(lookup, key) == \E i \in DOMAIN lookup : lookup[i].key = key
KeyIndex(lookup, key) == CHOOSE i \in DOMAIN lookup : lookup[i].key = key
Items(lookup, key) == lookup[KeyIndex(lookup, key)].items
Names(items) == {items[i].name : i \in DOMAIN items}

\* lookup[key].append(item), creating the list first (search_utils.py:95-100)
DictAppend(lookup, key, item) ==
    IF HasKey(lookup, key)
    THEN [lookup EXCEPT ![KeyIndex(lookup, key)].items = Append(@, item)]
    ELSE Append(lookup, [key |-> key, items |-> <<item>>])

\* The same, unless the list holds an item of that name (search_utils.py:124-131)
DictAppendNew(lookup, key, item) ==
    IF HasKey(lookup, key) /\ item.name \in Names(Items(lookup, key))
    THEN lookup
    ELSE DictAppend(lookup, key, item)

\* for key in keys: ... (search_utils.py:94-100 and 123-131)
RECURSIVE AddUnderKeys(_, _, _, _)
AddUnderKeys(lookup, keys, item, once) ==
    IF keys = <<>> THEN lookup
    ELSE IF HasKey(lookup, keys[1]) /\ once
    THEN AddUnderKeys(DictAppendNew(lookup, keys[1], item), Tail(keys), item, once)
    ELSE AddUnderKeys(DictAppend(lookup, keys[1], item), Tail(keys), item, once)

\* pd.isna(fund_name) or not str(fund_name).strip()
SkipFundName_nullOnly(fund_name) == fund_name = NaN
SkipFundName(fund_name) == fund_name = NaN \/ strip(fund_name) = ""

FundKeys(fund_name) ==
    LET low == lower(fund_name)
    IN  <<low, replace(low, ","), replace(low, "."), replace(low, " ")>> \o findall_words(low)

RECURSIVE _build_fund_lookup(_, _)
_build_fund_lookup(rows, lookup) ==
    IF rows = <<>> THEN lookup
    ELSE LET row == rows[1]
             fund_name == strip(row.FILINGMANAGER_NAME)
         IN  IF SkipFundName(row.FILINGMANAGER_NAME)
             THEN _build_fund_lookup(Tail(rows), lookup)
             ELSE _build_fund_lookup(Tail(rows),
                      AddUnderKeys(lookup, FundKeys(fund_name),
                                   [name |-> fund_name, accession |-> row.ACCESSION_NUMBER],
                                   FALSE))

\* The row cap of the sample the security index is built over (line 107),
\* scaled from the 100000 of the source to the tables of the model.
SAMPLE_ROWS == 4

SecurityKeys(security_name) ==
    <<lower(security_name)>>
        \o [i \in DOMAIN findall_tickers(security_name) |-> lower(findall_tickers(security_name)[i])]
        \o findall_words(lower(security_name))

RECURSIVE _build_ticker_lookup(_, _)
_build_ticker_lookup(rows, lookup) ==
    IF rows = <<>> THEN lookup
    ELSE LET row == rows[1]
         IN  _build_ticker_lookup(Tail(rows),
                 AddUnderKeys(lookup, SecurityKeys(row.NAMEOFISSUER),
                              [name |-> row.NAMEOFISSUER, cusip |-> row.CUSIP,
                               title_class |-> row.TITLEOFCLASS],
                              TRUE))

-----------------------------------------------------------------------------
(* HedgeFundSearchEngine: search *)

\* Direct matches appended without the test of seen_names
AppendUnseen_all(results, items) == results \o items

\* for fund in lookup[query]: append it unless its name was seen
\* (search_utils.py:144-147, 172-175); seen_names is the names of results.
RECURSIVE AppendUnseen(_, _)
AppendUnseen(results, items) ==
    IF items = <<>> THEN results
    ELSE AppendUnseen(IF items[1].name \in Names(results) THEN results
                      ELSE Append(results, items[1]),
                      Tail(items))

\* The inner loop of the partial matches without the test of the names seen
RECURSIVE AppendUnseenUpTo_all(_, _, _)
AppendUnseenUpTo_all(results, items, limit) ==
    IF items = <<>> THEN results
    ELSE IF Len(results) + 1 >= limit
         THEN Append(results, items[1])
         ELSE AppendUnseenUpTo_all(Append(results, items[1]), Tail(items), limit)

\* The inner loop of the partial matches, which breaks once an append has
\* filled the results (search_utils.py:152-157, 180-185).
RECURSIVE AppendUnseenUpTo(_, _, _)
AppendUnseenUpTo(results, items, limit) ==
    IF items = <<>> THEN results
    ELSE IF items[1].name \in Names(results)
         THEN AppendUnseenUpTo(results, Tail(items), limit)
         ELSE IF Len(results) + 1 >= limit
              THEN Append(results, items[1])
              ELSE AppendUnseenUpTo(Append(results, items[1]), Tail(items), limit)

\* Partial matches that leave the scan at the first key the query is part of
RECURSIVE PartialMatches_firstKey(_, _, _, _)
PartialMatches_firstKey(results, lookup, query, limit) ==
    IF lookup = <<>> THEN results
    ELSE IF Contains(lookup[1].key, query) /\ Len(results) < limit
         THEN AppendUnseenUpTo(results, lookup[1].items, limit)
         ELSE PartialMatches_firstKey(results, Tail(lookup), query, limit)

\* Partial matches that take every key, whether the query is part of it or not
RECURSIVE PartialMatches_anyKey(_, _, _, _)
PartialMatches_anyKey(results, lookup, query, limit) ==
    IF lookup = <<>> THEN results
    ELSE PartialMatches_anyKey(IF Len(results) < limit
                               THEN AppendUnseenUpTo(results, lookup[1].items, limit)
                               ELSE results,
                               Tail(lookup), query, limit)

\* for key, funds in lookup.items(): if query in key and len(results) < limit
\* (search_utils.py:150-151, 178-179)
RECURSIVE PartialMatches(_, _, _, _)
PartialMatches(results, lookup, query, limit) ==
    IF lookup = <<>> THEN results
    ELSE PartialMatches(IF Contains(lookup[1].key, query) /\ Len(results) < limit
                        THEN AppendUnseenUpTo(results, lookup[1].items, limit)
                        ELSE results,
                        Tail(lookup), query, limit)

\* A search without the direct matches: the substring scan alone
DirectMatches_skipped(lookup, query) == <<>>

DirectMatches(lookup, query) ==
    IF HasKey(lookup, query) THEN AppendUnseen(<<>>, Items(lookup, query)) ELSE <<>>

\* search_funds returning results instead of results[:limit]
search_funds_unsliced(lookup, query, limit) ==
    LET q == strip(lower(query))
    IN  PartialMatches(DirectMatches(lookup, q), lookup, q, limit)

search_funds(lookup, query, limit) ==
    LET q == strip(lower(query))
    IN  head(PartialMatches(DirectMatches(lookup, q), lookup, q, limit), limit)

search_securities(lookup, query, limit) ==
    LET q == strip(lower(query))
    IN  head(PartialMatches(DirectMatches(lookup, q), lookup, q, limit), limit)

-----------------------------------------------------------------------------
(* HedgeFundSearchEngine: aggregation *)

\* A quotient that pandas computes in floating point is kept exact, as the
\* fraction num/den; a fraction with den = 0 is the NaN that 0/0 gives
\* (VALUE is never negative, so a zero total has only zero values).
Fraction(n, d) == [num |-> n, den |-> d]

\* groupby(['NAMEOFISSUER', 'TITLEOFCLASS']).agg(...).reset_index(): one row
\* per key, in key order; rows with a missing key are dropped.
AggregateBySecurity(holdings) ==
    LET keyed == SelectSeq(holdings, LAMBDA r : r.NAMEOFISSUER # NaN /\ r.TITLEOFCLASS # NaN)
        keys == SortKeys({<<r.NAMEOFISSUER, r.TITLEOFCLASS>> : r \in Range(keyed)})
        Group(k) == SelectSeq(keyed, LAMBDA r : <<r.NAMEOFISSUER, r.TITLEOFCLASS>> = k)
    IN  [i \in DOMAIN keys |->
            [NAMEOFISSUER |-> keys[i][1], TITLEOFCLASS |-> keys[i][2],
             VALUE |-> SumOf(Group(keys[i]), "VALUE"),
             SSHPRNAMT |-> SumOf(Group(keys[i]), "SSHPRNAMT"),
             CUSIP |-> First(Group(keys[i]), "CUSIP"),
             PUTCALL |-> First(Group(keys[i]), "PUTCALL")]]

\* total_value taken from the first group instead of summed over the groups
TotalValue_first(aggregated) == aggregated[1].VALUE

\* total_value = aggregated['VALUE'].sum() (search_utils.py:218)
TotalValue(aggregated) == SumOf(aggregated, "VALUE")

\* aggregated['portfolio_pct'] = (aggregated['VALUE'] / total_value) * 100
WithPortfolioPct(aggregated) ==
    [i \in DOMAIN aggregated |->
        [NAMEOFISSUER |-> aggregated[i].NAMEOFISSUER,
         TITLEOFCLASS |-> aggregated[i].TITLEOFCLASS,
         VALUE |-> aggregated[i].VALUE, SSHPRNAMT |-> aggregated[i].SSHPRNAMT,
         CUSIP |-> aggregated[i].CUSIP, PUTCALL |-> aggregated[i].PUTCALL,
         portfolio_pct |-> Fraction(aggregated[i].VALUE * 100, TotalValue(aggregated))]]

\* The tables get_fund_holdings can return (one per order of equal values).
get_fund_holdings(lookup, infotable, fund_name, top_n) ==
    LET fund_matches == search_funds(lookup, fund_name, 5)
        accession_numbers == {fund_matches[i].accession : i \in DOMAIN fund_matches}
        holdings == SelectSeq(infotable, LAMBDA r : r.ACCESSION_NUMBER \in accession_numbers)
    IN  IF fund_matches = <<>> \/ holdings = <<>> THEN {<<>>}
        ELSE {head(sorted, top_n) :
                sorted \in sort_values_desc(WithPortfolioPct(AggregateBySecurity(holdings)), "VALUE")}

\* holdings.merge(coverpage_df[['ACCESSION_NUMBER', 'FILINGMANAGER_NAME']],
\* on='ACCESSION_NUMBER'): an inner join.
RECURSIVE Merge(_, _)
Merge(holdings, coverpage) ==
    IF holdings = <<>> THEN <<>>
    ELSE LET h == holdings[1]
             matches == SelectSeq(coverpage, LAMBDA c : c.ACCESSION_NUMBER = h.ACCESSION_NUMBER)
         IN  [i \in DOMAIN matches |->
                [ACCESSION_NUMBER |-> h.ACCESSION_NUMBER, NAMEOFISSUER |-> h.NAMEOFISSUER,
                 VALUE |-> h.VALUE, SSHPRNAMT |-> h.SSHPRNAMT,
                 FILINGMANAGER_NAME |-> matches[i].FILINGMANAGER_NAME]]
             \o Merge(Tail(holdings), coverpage)

\* The aggregation keeping one row per (filer, accession) pair: positions of
\* a filer filed under different accession ids are not added together.
AggregateByFund_perAccession(holdings_with_funds) ==
    LET keyed == SelectSeq(holdings_with_funds, LAMBDA r : r.FILINGMANAGER_NAME # NaN)
        keys == SortKeys({<<r.FILINGMANAGER_NAME, r.ACCESSION_NUMBER>> : r \in Range(keyed)})
        Group(k) == SelectSeq(keyed, LAMBDA r : <<r.FILINGMANAGER_NAME, r.ACCESSION_NUMBER>> = k)
    IN  [i \in DOMAIN keys |->
            [FILINGMANAGER_NAME |-> keys[i][1],
             VALUE |-> SumOf(Group(keys[i]), "VALUE"),
             SSHPRNAMT |-> SumOf(Group(keys[i]), "SSHPRNAMT")]]

\* groupby('FILINGMANAGER_NAME').agg({'VALUE': 'sum', 'SSHPRNAMT': 'sum'})
AggregateByFund(holdings_with_funds) ==
    LET keyed == SelectSeq(holdings_with_funds, LAMBDA r : r.FILINGMANAGER_NAME # NaN)
        keys == SortKeys({<<r.FILINGMANAGER_NAME>> : r \in Range(keyed)})
        Group(k) == SelectSeq(keyed, LAMBDA r : <<r.FILINGMANAGER_NAME>> = k)
    IN  [i \in DOMAIN keys |->
            [FILINGMANAGER_NAME |-> keys[i][1],
             VALUE |-> SumOf(Group(keys[i]), "VALUE"),
             SSHPRNAMT |-> SumOf(Group(keys[i]), "SSHPRNAMT")]]

\* The tables get_security_holders can return.
get_security_holders(lookup, infotable, coverpage, security_name, top_n) ==
    LET security_matches == search_securities(lookup, security_name, 10)
        security_names == Names(security_matches)
        holdings == SelectSeq(infotable, LAMBDA r : r.NAMEOFISSUER \in security_names)
    IN  IF security_matches = <<>> \/ holdings = <<>> THEN {<<>>}
        ELSE {head(sorted, top_n) :
                sorted \in sort_values_desc(AggregateByFund(Merge(holdings, coverpage)), "VALUE")}

\* holdings['VALUE'].median() of rows sorted by VALUE
Median(holdings) ==
    LET n == Len(holdings)
    IN  IF n % 2 = 1 THEN Fraction(holdings[(n + 1) \div 2].VALUE, 1)
        ELSE Fraction(holdings[n \div 2].VALUE + holdings[n \div 2 + 1].VALUE, 2)

\* Statistics computed without the check for empty holdings: an empty but
\* successful result.
FundStatistics_unchecked(fund_name, holdings) ==
    [total_portfolio_value |-> SumOf(holdings, "VALUE"),
     total_positions |-> Len(holdings),
     unique_securities |-> Cardinality({holdings[i].NAMEOFISSUER : i \in DOMAIN holdings}),
     top_holding |-> None, top_holding_value |-> 0, top_holding_pct |-> 0,
     avg_position_size |-> Fraction(SumOf(holdings, "VALUE"), Len(holdings)),
     median_position_size |-> Fraction(0, 0)]

FundStatistics(fund_name, holdings) ==
    IF holdings = <<>> THEN [error |-> "Fund not found", fund_name |-> fund_name]
    ELSE [total_portfolio_value |-> SumOf(holdings, "VALUE"),
          total_positions |-> Len(holdings),
          unique_securities |-> Cardinality({holdings[i].NAMEOFISSUER : i \in DOMAIN holdings}),
          top_holding |-> holdings[1].NAMEOFISSUER,
          top_holding_value |-> holdings[1].VALUE,
          top_holding_pct |-> holdings[1].portfolio_pct,
          avg_position_size |-> Fraction(SumOf(holdings, "VALUE"), Len(holdings)),
          median_position_size |-> Median(holdings)]

\* The top_n get_fund_statistics passes to get_fund_holdings, scaled from
\* the 1000 of the source to the tables of the model.
STATS_TOP_N == 2

\* The results get_fund_statistics can return.
get_fund_statistics(lookup, infotable, fund_name) ==
    {FundStatistics(fund_name, holdings) :
        holdings \in get_fund_holdings(lookup, infotable, fund_name, STATS_TOP_N)}

-----------------------------------------------------------------------------
(* HedgeFundSearchEngine: loading *)

startswith(s, prefix) == Len(s) >= Len(prefix) /\ SubSeq(s, 1, Len(prefix)) = prefix
endswith(s, suffix) ==
    Len(s) >= Len(suffix) /\ SubSeq(s, Len(s) - Len(suffix) + 1, Len(s)) = suffix

\* sorted(names) for a list of distinct str
sorted(names) ==
    LET keys == SortKeys({<<n>> : n \in names})
    IN  [i \in DOMAIN keys |-> keys[i][1]]

\* A concat of chunk tables read with skiprows=1: the line after the header
\* is taken for the header.
RECURSIVE ConcatChunks_skiprows(_, _)
ConcatChunks_skiprows(files, names) ==
    IF names = <<>> THEN <<>>
    ELSE (IF Len(files[names[1]]) > 1 THEN read_csv(Tail(files[names[1]])) ELSE <<>>)
         \o ConcatChunks_skiprows(files, Tail(names))

\* pd.concat of the tables read from the chunk files, in the order given
RECURSIVE ConcatChunks(_, _)
ConcatChunks(files, names) ==
    IF names = <<>> THEN <<>>
    ELSE read_csv(files[names[1]]) \o ConcatChunks(files, Tail(names))

\* HedgeFundSearchEngine._load_from_chunks: what it raises and the table
\* (pd.concat raises ValueError on an empty list)
EngineLoadFromChunks(dir) ==
    IF ~dir.exists THEN [raised |-> "FileNotFoundError", rows |-> None]
    ELSE LET chunk_names ==
                 sorted({f \in DOMAIN dir.files : startswith(f, "INFOTABLE_chunk_")})
         IN  IF chunk_names = <<>>
             THEN [raised |-> "ValueError", rows |-> None]
             ELSE [raised |-> "none", rows |-> ConcatChunks(dir.files, chunk_names)]

\* The engine object, and the exception the call in progress has raised.
Engine ==
    [coverpage_df |-> coverpage_df, infotable_df |-> infotable_df,
     fund_lookup |-> fund_lookup, ticker_lookup |-> ticker_lookup,
     loaded |-> loaded, raised |-> "none"]

\* A load_data without the test of self.loaded at lines 23-24
load_data_always(e) ==
    IF coverpage_file = NoFile THEN [e EXCEPT !.raised = "FileNotFoundError"]
    ELSE LET cover == read_csv(coverpage_file)
             chunks == EngineLoadFromChunks(chunk_files)
             info == IF infotable_file # NoFile THEN read_csv(infotable_file) ELSE chunks.rows
         IN  IF infotable_file = NoFile /\ chunks.raised # "none"
             THEN [e EXCEPT !.coverpage_df = cover, !.raised = chunks.raised]
             ELSE [coverpage_df |-> cover, infotable_df |-> info,
                   fund_lookup |-> _build_fund_lookup(cover, <<>>),
                   ticker_lookup |-> _build_ticker_lookup(head(info, SAMPLE_ROWS), <<>>),
                   loaded |-> TRUE, raised |-> "none"]

\* HedgeFundSearchEngine.load_data
load_data(e) ==
    IF e.loaded THEN e
    ELSE IF coverpage_file = NoFile THEN [e EXCEPT !.raised = "FileNotFoundError"]
    ELSE LET cover == read_csv(coverpage_file)
             chunks == EngineLoadFromChunks(chunk_files)
             info == IF infotable_file # NoFile THEN read_csv(infotable_file) ELSE chunks.rows
         IN  IF infotable_file = NoFile /\ chunks.raised # "none"
             THEN [e EXCEPT !.coverpage_df = cover, !.raised = chunks.raised]
             ELSE [coverpage_df |-> cover, infotable_df |-> info,
                   fund_lookup |-> _build_fund_lookup(cover, <<>>),
                   ticker_lookup |-> _build_ticker_lookup(head(info, SAMPLE_ROWS), <<>>),
                   loaded |-> TRUE, raised |-> "none"]

\* A load that sets self.loaded and keeps the tables and indexes in locals
SetEngine_flagOnly(e) ==
    /\ loaded' = e.loaded
    /\ UNCHANGED <<coverpage_df, infotable_df, fund_lookup, ticker_lookup>>

SetEngine(e) ==
    /\ coverpage_df' = e.coverpage_df
    /\ infotable_df' = e.infotable_df
    /\ fund_lookup' = e.fund_lookup
    /\ ticker_lookup' = e.ticker_lookup
    /\ loaded' = e.loaded

-----------------------------------------------------------------------------
(* The search engine over small tables *)

MaxCover == 2
MaxPositions == 5
MaxLimit == 3

AccessionId(i) == "A" \o Ch(DigitChars, i + 1)

CoverHeader == <<"ACCESSION_NUMBER", "FILINGMANAGER_NAME">>
InfoHeader ==
    <<"ACCESSION_NUMBER", "NAMEOFISSUER", "TITLEOFCLASS", "CUSIP", "VALUE", "SSHPRNAMT", "PUTCALL">>

\* The files of the data directory that the engine does not read, as the
\* download leaves them: a header line each, and the metadata document.
SubmissionHeader == <<"ACCESSION_NUMBER", "FILING_DATE">>
SummaryHeader == <<"ACCESSION_NUMBER", "TABLEVALUETOTAL">>
OtherFilesPresent ==
    /\ submission_file = <<SubmissionHeader>>
    /\ summarypage_file = <<SummaryHeader>>
    /\ metadata_file = <<"{}">>

\* Filing-manager names as COVERPAGE.tsv has them: missing, blank, two names
\* that share a word, and a name that another name is the beginning of.
CoverNames == {NaN, " ", "Fund X", "Fund Y", "Fund XY"}

\* The coverpage tables: row i is filing A<i> (the accession id is the key).
CoverTables ==
    UNION {{[i \in 1..n |-> [ACCESSION_NUMBER |-> AccessionId(i), FILINGMANAGER_NAME |-> names[i]]] :
                names \in [1..n -> CoverNames]} : n \in 0..MaxCover}

Position(accession, issuer, class, cusip, value, shares, putcall) ==
    [ACCESSION_NUMBER |-> accession, NAMEOFISSUER |-> issuer, TITLEOFCLASS |-> class,
     CUSIP |-> cusip, VALUE |-> value, SSHPRNAMT |-> shares, PUTCALL |-> putcall]

\* Position rows to build INFOTABLE.tsv from: two rows of one security in one
\* filing, the same security in other filings and in another class, a
\* position of value 0, positions of equal value, and a security that comes
\* only after SAMPLE_ROWS rows of another.
PositionPool ==
    <<Position("A1", "APPLE INC", "COM", "037833100", 100, 10, NaN),
      Position("A1", "APPLE INC", "COM", "037833100", 50, 5, "Put"),
      Position("A2", "APPLE INC", "COM", "037833100", 30, 3, NaN),
      Position("A2", "APPLE INC", "PFD", NaN, 30, 2, NaN),
      Position("A2", "IBM CORP", "COM", "459200101", 0, 0, NaN),
      Position("A1", "IBM CORP", "COM", "459200101", 30, 1, "Call"),
      Position("A3", "IBM CORP", "PFD", NaN, 100, 4, NaN)>>

\* The rows of seq at the places picked, in their order.
RECURSIVE SubSequence(_, _, _)
SubSequence(seq, picked, i) ==
    IF i > Len(seq) THEN <<>>
    ELSE (IF i \in picked THEN <<seq[i]>> ELSE <<>>) \o SubSequence(seq, picked, i + 1)

\* The positions tables: the sub-tables of the first MaxPositions pool rows.
PositionTables == {SubSequence(PositionPool, picked, 1) : picked \in SUBSET (1..MaxPositions)}

\* What the caller types: nothing, a word shared by two funds (with a space
\* to trim and a capital to lower), a whole name, and a word of no name.
FundQueries == {"", " Fund", "fund x", "zz"}
SecurityQueries == {"", "Apple", "ibm corp", "zz"}

CacheIdle ==
    /\ csv_file = NoFile
    /\ mapping = <<>>
    /\ today = 0
    /\ caller = <<>>
    /\ resolved = NoCall
    /\ openai_cache = [ticker |-> <<>>, sector |-> <<>>]

SearchInit ==
    /\ coverpage_file \in {<<CoverHeader>> \o t : t \in CoverTables}
    /\ infotable_file \in {<<InfoHeader>> \o t : t \in PositionTables}
    /\ chunk_files = NoDir
    /\ OtherFilesPresent
    /\ loaded_rows = NoCall
    /\ coverpage_df = None
    /\ infotable_df = None
    /\ fund_lookup = <<>>
    /\ ticker_lookup = <<>>
    /\ loaded = FALSE
    /\ result = NoCall
    /\ CacheIdle

\* engine.load_data()
LoadData ==
    /\ result.op = "none"
    /\ \E e \in {load_data(Engine)} :
           /\ SetEngine(e)
           /\ result' = [op |-> "load_data", raised |-> e.raised]
    /\ UNCHANGED <<cacheVars, diskVars>>

\* engine.search_funds(query, limit)
SearchFunds ==
    /\ result.op = "none"
    /\ \E e \in {load_data(Engine)} :
           /\ SetEngine(e)
           /\ \E query \in FundQueries, limit \in 0..MaxLimit :
                result' = [op |-> "search_funds", query |-> query, limit |-> limit,
                            raised |-> e.raised,
                            value |-> IF e.raised # "none" THEN None
                                      ELSE search_funds(e.fund_lookup, query, limit)]
    /\ UNCHANGED <<cacheVars, diskVars>>

\* engine.search_securities(query, limit)
SearchSecurities ==
    /\ result.op = "none"
    /\ \E e \in {load_data(Engine)} :
           /\ SetEngine(e)
           /\ \E query \in SecurityQueries, limit \in 0..MaxLimit :
                result' = [op |-> "search_securities", query |-> query, limit |-> limit,
                            raised |-> e.raised,
                            value |-> IF e.raised # "none" THEN None
                                      ELSE search_securities(e.ticker_lookup, query, limit)]
    /\ UNCHANGED <<cacheVars, diskVars>>

\* engine.search_securities(query, limit) once more, with the query and the
\* limit of the call that has just returned
SearchSecuritiesAgain ==
    /\ result.op = "search_securities"
    /\ result.raised = "none"
    /\ \E e \in {load_data(Engine)} :
           /\ SetEngine(e)
           /\ result' = [op |-> "search_securities twice", query |-> result.query,
                         limit |-> result.limit, raised |-> e.raised,
                         first |-> result.value,
                         value |-> IF e.raised # "none" THEN None
                                   ELSE search_securities(e.ticker_lookup, result.query,
                                                          result.limit)]
    /\ UNCHANGED <<cacheVars, diskVars>>

\* engine.get_fund_holdings(fund_name, top_n)
GetFundHoldings ==
    /\ result.op = "none"
    /\ \E e \in {load_data(Engine)} :
           /\ SetEngine(e)
           /\ \E query \in FundQueries, top_n \in 0..MaxLimit :
                \E value \in IF e.raised # "none" THEN {None}
                                ELSE get_fund_holdings(e.fund_lookup, e.infotable_df, query, top_n) :
                    result' = [op |-> "get_fund_holdings", query |-> query, limit |-> top_n,
                               raised |-> e.raised, value |-> value]
    /\ UNCHANGED <<cacheVars, diskVars>>

\* engine.get_security_holders(security_name, top_n)
GetSecurityHolders ==
    /\ result.op = "none"
    /\ \E e \in {load_data(Engine)} :
           /\ SetEngine(e)
           /\ \E query \in SecurityQueries, top_n \in 0..MaxLimit :
                \E value \in IF e.raised # "none" THEN {None}
                                ELSE get_security_holders(e.ticker_lookup, e.infotable_df,
                                                          e.coverpage_df, query, top_n) :
                    result' = [op |-> "get_security_holders", query |-> query, limit |-> top_n,
                               raised |-> e.raised, value |-> value]
    /\ UNCHANGED <<cacheVars, diskVars>>

\* engine.get_fund_statistics(fund_name)
GetFundStatistics ==
    /\ result.op = "none"
    /\ \E e \in {load_data(Engine)} :
           /\ SetEngine(e)
           /\ \E query \in FundQueries :
                \E value \in IF e.raised # "none" THEN {None}
                                ELSE get_fund_statistics(e.fund_lookup, e.infotable_df, query) :
                    result' = [op |-> "get_fund_statistics", query |-> query,
                               raised |-> e.raised, value |-> value]
    /\ UNCHANGED <<cacheVars, diskVars>>

\* The caller takes the result; the engine waits for the next call.
Return ==
    /\ result.op # "none"
    /\ result' = NoCall
    /\ UNCHANGED <<coverpage_df, infotable_df, fund_lookup, ticker_lookup, loaded>>
    /\ UNCHANGED <<cacheVars, diskVars>>

SearchNext ==
    \/ LoadData
    \/ SearchFunds
    \/ SearchSecurities
    \/ SearchSecuritiesAgain
    \/ GetFundHoldings
    \/ GetSecurityHolders
    \/ GetFundStatistics
    \/ Return

SearchSpec == SearchInit /\ [][SearchNext]_vars

-----------------------------------------------------------------------------
(* Properties of the search engine *)

\* The sum of f[1..n]
RECURSIVE SumTo(_, _)
SumTo(f, n) == IF n = 0 THEN 0 ELSE f[n] + SumTo(f, n - 1)

Returned(op) == result.op = op /\ result.raised = "none"
Normalized(query) == strip(lower(query))

\* C1: search_funds with a non-empty query returns at most limit entries,
\* and the name of every entry returned is neither missing nor blank.
C1_LimitAndNames ==
    (Returned("search_funds") /\ result.query # "")
        => /\ Len(result.value) <= result.limit
           /\ \A i \in DOMAIN result.value :
                /\ result.value[i].name # NaN
                /\ strip(result.value[i].name) # ""

\* C1 happens: the coverpage has a row with no usable name, the query is a
\* key under which more funds are indexed than the limit allows, and the
\* call returned exactly limit entries.
C1_Witness ==
    /\ Returned("search_funds")
    /\ result.query # ""
    /\ \E i \in DOMAIN coverpage_df : SkipFundName(coverpage_df[i].FILINGMANAGER_NAME)
    /\ HasKey(fund_lookup, Normalized(result.query))
    /\ Cardinality(Names(Items(fund_lookup, Normalized(result.query)))) > result.limit
    /\ Len(result.value) = result.limit

\* C2: a query that normalizes to the empty string makes search_funds and
\* search_securities return an empty list.
C2_EmptyQueryEmptyResult ==
    ((Returned("search_funds") \/ Returned("search_securities"))
        /\ Normalized(result.query) = "")
        => result.value = <<>>

\* The (issuer, class) groups among the positions of the filings that
\* search_funds matches for the query, and their summed VALUE.
MatchedAccessions(query) ==
    {m.accession : m \in Range(search_funds(fund_lookup, query, 5))}
MatchedGroups(query) ==
    {<<infotable_df[i].NAMEOFISSUER, infotable_df[i].TITLEOFCLASS>> :
        i \in {j \in DOMAIN infotable_df :
                    infotable_df[j].ACCESSION_NUMBER \in MatchedAccessions(query)}}
MatchedValue(query) ==
    SumTo([i \in DOMAIN infotable_df |->
              IF infotable_df[i].ACCESSION_NUMBER \in MatchedAccessions(query)
              THEN infotable_df[i].VALUE ELSE 0],
          Len(infotable_df))

\* The portfolio_pct column sums to 100: Series.sum() skips NaN, and a
\* column that is empty or all NaN sums to 0.
PctSumsTo100(rows) ==
    /\ rows # <<>>
    /\ \A i \in DOMAIN rows : rows[i].portfolio_pct.den = rows[1].portfolio_pct.den
    /\ rows[1].portfolio_pct.den # 0
    /\ SumTo([i \in DOMAIN rows |-> rows[i].portfolio_pct.num], Len(rows))
            = 100 * rows[1].portfolio_pct.den

MatchedSecurities(query) == Names(search_securities(ticker_lookup, query, 10))
HeldValue(query, filer, col) ==
    SumTo([i \in DOMAIN infotable_df |->
              IF infotable_df[i].NAMEOFISSUER \in MatchedSecurities(query)
              THEN infotable_df[i][col]
                    * Cardinality({j \in DOMAIN coverpage_df :
                        /\ coverpage_df[j].ACCESSION_NUMBER = infotable_df[i].ACCESSION_NUMBER
                        /\ coverpage_df[j].FILINGMANAGER_NAME = filer})
              ELSE 0],
          Len(infotable_df))
Holders(query) ==
    {coverpage_df[j].FILINGMANAGER_NAME : j \in {k \in DOMAIN coverpage_df :
        /\ coverpage_df[k].FILINGMANAGER_NAME # NaN
        /\ \E i \in DOMAIN infotable_df :
              /\ infotable_df[i].NAMEOFISSUER \in MatchedSecurities(query)
              /\ infotable_df[i].ACCESSION_NUMBER = coverpage_df[k].ACCESSION_NUMBER}}

\* C9: get_security_holders returns one row per filer name holding a
\* matched security, its VALUE the sum over all the filer's positions in the
\* matched securities whatever their accession id, the rows sorted by VALUE
\* descending, and only the top_n first of them.
C9_HoldersAggregate ==
    Returned("get_security_holders") =>
        LET rows == result.value
            names == {rows[i].FILINGMANAGER_NAME : i \in DOMAIN rows}
        IN  /\ Len(rows) = IF result.limit < Cardinality(Holders(result.query))
                            THEN result.limit ELSE Cardinality(Holders(result.query))
            /\ Cardinality(names) = Len(rows)
            /\ names \subseteq Holders(result.query)
            /\ \A i \in DOMAIN rows :
                  /\ rows[i].VALUE = HeldValue(result.query, rows[i].FILINGMANAGER_NAME, "VALUE")
                  /\ rows[i].SSHPRNAMT
                        = HeldValue(result.query, rows[i].FILINGMANAGER_NAME, "SSHPRNAMT")
            /\ \A i \in 1..(Len(rows) - 1) : rows[i].VALUE >= rows[i + 1].VALUE
            /\ \A f \in Holders(result.query) \ names :
                  \A i \in DOMAIN rows : rows[i].VALUE >= HeldValue(result.query, f, "VALUE")

\* C9 happens: the example of the specification (APPLE INC 100 and 50 under
\* A1 -> Fund X, 30 under A2 -> Fund Y).
C9_Witness ==
    /\ Returned("get_security_holders")
    /\ result.query = "Apple"
    /\ coverpage_df = <<[ACCESSION_NUMBER |-> "A1", FILINGMANAGER_NAME |-> "Fund X"],
                        [ACCESSION_NUMBER |-> "A2", FILINGMANAGER_NAME |-> "Fund Y"]>>
    /\ infotable_df = SubSeq(PositionPool, 1, 3)
    /\ result.value = <<[FILINGMANAGER_NAME |-> "Fund X", VALUE |-> 150, SSHPRNAMT |-> 15],
                        [FILINGMANAGER_NAME |-> "Fund Y", VALUE |-> 30, SSHPRNAMT |-> 3]>>

SampledNames ==
    {infotable_df[i].NAMEOFISSUER : i \in {k \in DOMAIN infotable_df : k <= SAMPLE_ROWS}}
QueryInKeysOf(query, security_name) ==
    \E k \in DOMAIN SecurityKeys(security_name) :
        Contains(SecurityKeys(security_name)[k], Normalized(query))

\* C11: search_securities returns only securities named in the first
\* SAMPLE_ROWS position rows, and returns an empty list for a query that is
\* part of no key of such a security, whatever the later rows hold.
C11_BeyondSampleUnsearchable ==
    Returned("search_securities") =>
        /\ Names(result.value) \subseteq SampledNames
        /\ (\A name \in SampledNames : ~QueryInKeysOf(result.query, name))
              => result.value = <<>>

\* C11 happens: the query is the name of a security of a row after the cap
\* and of no row before it, the limit lets an entry through, and the list
\* returned is empty.
C11_Witness ==
    /\ Returned("search_securities")
    /\ result.limit > 0
    /\ Normalized(result.query) # ""
    /\ \E i \in DOMAIN infotable_df :
          /\ i > SAMPLE_ROWS
          /\ lower(infotable_df[i].NAMEOFISSUER) = Normalized(result.query)
          /\ infotable_df[i].NAMEOFISSUER \notin SampledNames
    /\ \A name \in SampledNames : ~QueryInKeysOf(result.query, name)
    /\ result.value = <<>>

\* The accession ids of the coverpage rows whose filer name is missing, empty
\* or whitespace only.
UnnamedAccessions ==
    {coverpage_df[i].ACCESSION_NUMBER :
        i \in {k \in DOMAIN coverpage_df : SkipFundName(coverpage_df[k].FILINGMANAGER_NAME)}}

IndexedFunds(lookup) == UNION {Range(lookup[k].items) : k \in DOMAIN lookup}

\* C12: a coverpage row whose filer name is missing, empty or whitespace only
\* puts no key and no entry into the fund index, and no search_funds result
\* carries the accession id of such a row or a blank name.
C12_UnnamedRowsNotIndexed ==
    /\ loaded =>
          /\ \A item \in IndexedFunds(fund_lookup) :
                /\ item.accession \notin UnnamedAccessions
                /\ item.name # NaN /\ strip(item.name) # ""
          /\ \A k \in DOMAIN fund_lookup :
                /\ strip(fund_lookup[k].key) # ""
                /\ \E item \in Range(fund_lookup[k].items) :
                      \E j \in DOMAIN FundKeys(item.name) : FundKeys(item.name)[j] = fund_lookup[k].key
    /\ Returned("search_funds") =>
          \A i \in DOMAIN result.value :
              /\ result.value[i].accession \notin UnnamedAccessions
              /\ result.value[i].name # NaN /\ strip(result.value[i].name) # ""

\* C12 happens: the coverpage holds a row with no usable name next to a named
\* one, and a query that every key contains returned the named fund only.
C12_Witness ==
    /\ Returned("search_funds")
    /\ result.query = ""
    /\ result.limit = MaxLimit
    /\ UnnamedAccessions # {}
    /\ result.value # <<>>
    /\ \A i \in DOMAIN result.value : result.value[i].accession \notin UnnamedAccessions

InNoKey(lookup, query) ==
    \A k \in DOMAIN lookup : ~Contains(lookup[k].key, Normalized(query))

\* C19: with a query that is part of no key of the index, search_funds and
\* search_securities return the empty list and get_fund_holdings and
\* get_security_holders return the empty table, and none of them raises.
C19_NoMatchEmpty ==
    /\ (result.op \in {"search_funds", "get_fund_holdings"}
          /\ InNoKey(fund_lookup, result.query))
         => (result.raised = "none" /\ result.value = <<>>)
    /\ (result.op \in {"search_securities", "get_security_holders"}
          /\ InNoKey(ticker_lookup, result.query))
         => (result.raised = "none" /\ result.value = <<>>)

\* C19 happens: both indexes hold keys, the tables hold positions of funds
\* that are indexed, and get_security_holders has returned the empty table
\* for a query that is part of no key.
C19_Witness ==
    /\ Returned("get_security_holders")
    /\ result.limit = MaxLimit
    /\ Normalized(result.query) # ""
    /\ fund_lookup # <<>>
    /\ Len(ticker_lookup) > 2
    /\ InNoKey(ticker_lookup, result.query)
    /\ result.value = <<>>

\* The index the call searched, and the entries under the key that is the
\* normalized query, one per name, in the order the index holds them.
SearchedIndex == IF result.op = "search_funds" THEN fund_lookup ELSE ticker_lookup

RECURSIVE FirstOfEachName(_, _)
FirstOfEachName(items, seen) ==
    IF items = <<>> THEN <<>>
    ELSE IF items[1].name \in seen THEN FirstOfEachName(Tail(items), seen)
    ELSE <<items[1]>> \o FirstOfEachName(Tail(items), seen \cup {items[1].name})

KeyEntries == FirstOfEachName(Items(SearchedIndex, Normalized(result.query)), {})

\* C21: when the normalized query is a key of the index, the result of
\* search_funds and of search_securities begins with the entries of that
\* key, one per name in index order, as far as the limit allows, and every
\* entry after them is one that only the substring scan has found.
C21_KeyEntriesFirst ==
    (/\ result.op \in {"search_funds", "search_securities"}
     /\ result.raised = "none"
     /\ HasKey(SearchedIndex, Normalized(result.query)))
        => /\ \A i \in DOMAIN result.value :
                 IF i <= Len(KeyEntries)
                 THEN result.value[i] = KeyEntries[i]
                 ELSE result.value[i].name \notin Names(KeyEntries)
           /\ Len(result.value) >= (IF Len(KeyEntries) < result.limit
                                    THEN Len(KeyEntries) ELSE result.limit)

\* C21 happens: the fund that the query names comes after another fund in the
\* index, whose key the query is only a part of, and is returned before it.
C21_Witness ==
    /\ Returned("search_funds")
    /\ HasKey(fund_lookup, Normalized(result.query))
    /\ Len(result.value) = 2
    /\ Len(KeyEntries) = 1
    /\ result.value[1] = KeyEntries[1]
    /\ result.value[2].accession = AccessionId(1)
    /\ result.value[1].accession = AccessionId(2)

\* C22: no two entries that one call of search_funds or search_securities
\* returns have the same name, for any query and limit.
C22_NamesDistinct ==
    (result.op \in {"search_funds", "search_securities"} /\ result.raised = "none")
        => \A i, j \in DOMAIN result.value :
              i # j => result.value[i].name # result.value[j].name

\* C22 happens: two coverpage rows carry one fund name, which the index
\* therefore holds more than once under one key, and the search for that key
\* has returned the fund once.
C22_Witness ==
    /\ Returned("search_funds")
    /\ result.limit = MaxLimit
    /\ HasKey(fund_lookup, Normalized(result.query))
    /\ \E i, j \in DOMAIN Items(fund_lookup, Normalized(result.query)) :
          /\ i # j
          /\ Items(fund_lookup, Normalized(result.query))[i].name
                = Items(fund_lookup, Normalized(result.query))[j].name
    /\ Len(result.value) = 1

\* The names indexed under some key that the normalized query is part of
NamesUnderMatchingKeys(lookup, query) ==
    UNION {Names(lookup[k].items) :
             k \in {n \in DOMAIN lookup : Contains(lookup[n].key, Normalized(query))}}

\* C23: for a non-empty query, every name search_funds returns is indexed
\* under a key that contains the normalized query, and when fewer than limit
\* entries are returned the names returned are all the names so indexed.
C23_SubstringTierComplete ==
    (Returned("search_funds") /\ Normalized(result.query) # "")
        => /\ Names(result.value) \subseteq NamesUnderMatchingKeys(fund_lookup, result.query)
           /\ Len(result.value) < result.limit
                 => Names(result.value) = NamesUnderMatchingKeys(fund_lookup, result.query)

\* C23 happens: the query is a key of one fund and only a part of the keys of
\* another, and both funds were returned with room left under the limit.
C23_Witness ==
    /\ Returned("search_funds")
    /\ Normalized(result.query) # ""
    /\ Len(result.value) = 2
    /\ result.limit = 3
    /\ Len(KeyEntries) = 1
    /\ Names(result.value) = NamesUnderMatchingKeys(fund_lookup, result.query)

\* The accession id of the first coverpage row that carries the name
FirstAccessionOf(name) ==
    coverpage_df[CHOOSE i \in DOMAIN coverpage_df :
                    /\ coverpage_df[i].FILINGMANAGER_NAME = name
                    /\ \A j \in 1..(i - 1) : coverpage_df[j].FILINGMANAGER_NAME # name
                ].ACCESSION_NUMBER
\* One accession id for each name the search for the query returns
UsedAccessions(query) ==
    {FirstAccessionOf(m.name) : m \in Range(search_funds(fund_lookup, query, 5))}
\* The VALUE of the positions filed under these, in all or in one group
UsedValue(query) ==
    SumTo([i \in DOMAIN infotable_df |->
              IF infotable_df[i].ACCESSION_NUMBER \in UsedAccessions(query)
              THEN infotable_df[i].VALUE ELSE 0],
          Len(infotable_df))
UsedGroupValue(query, group) ==
    SumTo([i \in DOMAIN infotable_df |->
              IF /\ infotable_df[i].ACCESSION_NUMBER \in UsedAccessions(query)
                 /\ <<infotable_df[i].NAMEOFISSUER, infotable_df[i].TITLEOFCLASS>> = group
              THEN infotable_df[i].VALUE ELSE 0],
          Len(infotable_df))

\* C30: get_fund_holdings takes the positions of exactly one accession id
\* for each distinct matched fund name, that of the first coverpage row with
\* the name: positions filed under another accession id of the same name
\* count neither in the rows' VALUE nor in the denominator of portfolio_pct,
\* and there are rows exactly when a position is filed under the ids taken.
C30_OneAccessionPerName ==
    Returned("get_fund_holdings") =>
        LET rows == result.value
        IN  /\ \A i \in DOMAIN rows :
                  /\ rows[i].VALUE
                        = UsedGroupValue(result.query,
                                         <<rows[i].NAMEOFISSUER, rows[i].TITLEOFCLASS>>)
                  /\ rows[i].portfolio_pct
                        = Fraction(rows[i].VALUE * 100, UsedValue(result.query))
            /\ result.limit > 0 =>
                  (rows # <<>> <=>
                      \E i \in DOMAIN infotable_df :
                          infotable_df[i].ACCESSION_NUMBER \in UsedAccessions(result.query))

\* C30 happens: "Fund X" filed A1 and A2, APPLE INC COM is held under both
\* (100 and 30), and the holdings of "fund x" show 100 of 100.
C30_Witness ==
    /\ Returned("get_fund_holdings")
    /\ result.query = "fund x"
    /\ coverpage_df = <<[ACCESSION_NUMBER |-> "A1", FILINGMANAGER_NAME |-> "Fund X"],
                        [ACCESSION_NUMBER |-> "A2", FILINGMANAGER_NAME |-> "Fund X"]>>
    /\ infotable_df = <<PositionPool[1], PositionPool[3]>>
    /\ Len(result.value) = 1
    /\ result.value[1].VALUE = 100
    /\ result.value[1].portfolio_pct = Fraction(10000, 100)

\* The engine while the files of the data directory are replaced under it:
\* two coverpage files and two positions files.
EngineCoverFiles ==
    {<<CoverHeader, [ACCESSION_NUMBER |-> AccessionId(1), FILINGMANAGER_NAME |-> "Fund X"]>>,
     <<CoverHeader, [ACCESSION_NUMBER |-> AccessionId(1), FILINGMANAGER_NAME |-> "Fund Y"],
                    [ACCESSION_NUMBER |-> AccessionId(2), FILINGMANAGER_NAME |-> "Fund X"]>>}
\* Positions of one filing, one of them with an empty TITLEOFCLASS cell
UnclassedPositions ==
    <<Position("A1", "APPLE INC", "COM", "037833100", 100, 10, NaN),
      Position("A1", "APPLE INC", NaN, "037833100", 50, 5, NaN),
      Position("A1", "IBM CORP", "COM", "459200101", 30, 1, NaN)>>

EngineInfoFiles ==
    {<<InfoHeader>> \o SubSeq(PositionPool, 1, 2), <<InfoHeader>> \o SubSeq(PositionPool, 2, 5),
     <<InfoHeader>> \o UnclassedPositions}

EngineInit ==
    /\ coverpage_file \in EngineCoverFiles
    /\ infotable_file \in EngineInfoFiles
    /\ chunk_files = NoDir
    /\ OtherFilesPresent
    /\ loaded_rows = NoCall
    /\ coverpage_df = None
    /\ infotable_df = None
    /\ fund_lookup = <<>>
    /\ ticker_lookup = <<>>
    /\ loaded = FALSE
    /\ result = NoCall
    /\ CacheIdle

\* A new download takes the place of the files of the data directory.
ReplaceData ==
    /\ result.op = "none"
    /\ coverpage_file' \in EngineCoverFiles
    /\ infotable_file' \in EngineInfoFiles
    /\ <<coverpage_file', infotable_file'>> # <<coverpage_file, infotable_file>>
    /\ UNCHANGED <<chunk_files, otherFiles, loaded_rows>>
    /\ UNCHANGED <<searchVars, cacheVars>>

EngineNext ==
    \/ LoadData
    \/ SearchFunds
    \/ SearchSecurities
    \/ GetFundHoldings
    \/ GetSecurityHolders
    \/ GetFundStatistics
    \/ Return
    \/ ReplaceData

EngineSpec == EngineInit /\ [][EngineNext]_vars

\* The positions of the filings matched for the query that belong to a group,
\* and what they sum to in a column
GroupPositions(query, group) ==
    {i \in DOMAIN infotable_df :
        /\ infotable_df[i].ACCESSION_NUMBER \in MatchedAccessions(query)
        /\ <<infotable_df[i].NAMEOFISSUER, infotable_df[i].TITLEOFCLASS>> = group}
GroupSum(query, group, col) ==
    SumTo([i \in DOMAIN infotable_df |->
              IF i \in GroupPositions(query, group) THEN infotable_df[i][col] ELSE 0],
          Len(infotable_df))
RowGroup(row) == <<row.NAMEOFISSUER, row.TITLEOFCLASS>>

\* C24: get_fund_holdings returns one row for each distinct (issuer, class)
\* among the positions of the matched filings, as far as top_n allows: VALUE
\* and SSHPRNAMT summed over the group, portfolio_pct the VALUE over the
\* sum of all the groups times 100, the rows in descending order of VALUE
\* and the rows left out no larger than the rows returned.
C24_HoldingsAggregate ==
    Returned("get_fund_holdings") =>
        LET rows == result.value
            groups == MatchedGroups(result.query)
            returned == {RowGroup(rows[i]) : i \in DOMAIN rows}
        IN  /\ Len(rows) = IF result.limit < Cardinality(groups)
                            THEN result.limit ELSE Cardinality(groups)
            /\ Cardinality(returned) = Len(rows)
            /\ returned \subseteq groups
            /\ \A i \in DOMAIN rows :
                  /\ rows[i].VALUE = GroupSum(result.query, RowGroup(rows[i]), "VALUE")
                  /\ rows[i].SSHPRNAMT = GroupSum(result.query, RowGroup(rows[i]), "SSHPRNAMT")
                  /\ rows[i].portfolio_pct
                        = Fraction(rows[i].VALUE * 100, MatchedValue(result.query))
            /\ \A i \in 1..(Len(rows) - 1) : rows[i].VALUE >= rows[i + 1].VALUE
            /\ \A g \in groups \ returned :
                  \A i \in DOMAIN rows : rows[i].VALUE >= GroupSum(result.query, g, "VALUE")

\* The largest VALUE a group of the matched filings sums to
LargestGroupValue(query) ==
    CHOOSE v \in {GroupSum(query, g, "VALUE") : g \in MatchedGroups(query)} :
        \A g \in MatchedGroups(query) : v >= GroupSum(query, g, "VALUE")

\* C25: for a fund that is found, get_fund_statistics reports the sum of
\* VALUE over all positions of the matched filings as total_portfolio_value,
\* the number of all distinct (issuer, class) groups as total_positions and
\* the largest group value as top_holding_value, however many groups there
\* are.
C25_StatisticsOverAllGroups ==
    (Returned("get_fund_statistics") /\ "error" \notin DOMAIN result.value) =>
        /\ result.value.total_portfolio_value = MatchedValue(result.query)
        /\ result.value.total_positions = Cardinality(MatchedGroups(result.query))
        /\ result.value.top_holding_value = LargestGroupValue(result.query)

\* C17: once the engine has loaded, every step (a load_data, a search, an
\* aggregation, or a change of the files on disk) leaves it loaded with the
\* same fund index, security index, positions table and coverpage table.
C17_LoadedEngineImmutable ==
    [][loaded => /\ loaded'
                 /\ fund_lookup' = fund_lookup
                 /\ ticker_lookup' = ticker_lookup
                 /\ infotable_df' = infotable_df
                 /\ coverpage_df' = coverpage_df]_vars

\* C17 happens: load_data has returned on a loaded engine whose tables are
\* not the ones the files on disk now hold.
C17_Witness ==
    /\ loaded
    /\ result.op = "load_data"
    /\ result.raised = "none"
    /\ coverpage_df # read_csv(coverpage_file)
    /\ infotable_df # read_csv(infotable_file)
    /\ fund_lookup # _build_fund_lookup(read_csv(coverpage_file), <<>>)

-----------------------------------------------------------------------------
(* TickerMapping (utils/ticker_mapping.py) *)

\* The columns of data/company_ticker.csv. The file is NoFile or its lines:
\* the header, then one record of cell texts per row.
MappingHeader == <<"company_name", "ticker", "sector", "source", "last_updated">>

\* The cell texts pd.read_csv reads as a missing value.
NaValues == {"", "#N/A", "<NA>", "N/A", "NA", "NULL", "NaN", "n/a", "nan", "null"}

\* pd.read_csv: the value of a cell text
ParseCell(text) == IF text \in NaValues THEN NaN ELSE text

\* DataFrame.to_csv: the cell text of a value
CsvCell(value) == IF value \in {NaN, None} THEN "" ELSE value

read_mapping_csv(file) ==
    [i \in 1..(Len(file) - 1) |-> [col \in DOMAIN file[i + 1] |-> ParseCell(file[i + 1][col])]]

to_csv(df) ==
    <<MappingHeader>> \o [i \in DOMAIN df |-> [col \in DOMAIN df[i] |-> CsvCell(df[i][col])]]

\* datetime.now().strftime('%Y-%m-%d') on day number day
strftime(day) == "2025-01-0" \o Ch(DigitChars, day + 2)

\* str(company_name).upper().strip()
CleanName(company_name) ==
    IF company_name = NaN THEN "NAN"
    ELSE IF company_name = None THEN "NONE"
    ELSE strip(upper(company_name))

\* self.mapping: a dict, here a function from its keys
DictSet(dict, key, value) ==
    [k \in DOMAIN dict \cup {key} |-> IF k = key THEN value ELSE dict[k]]

RECURSIVE MappingFromRows(_, _)
MappingFromRows(df, dict) ==
    IF df = <<>> THEN dict
    ELSE MappingFromRows(Tail(df),
            DictSet(dict, CleanName(df[1].company_name),
                    [ticker |-> df[1].ticker, sector |-> df[1].sector,
                     source |-> df[1].source, last_updated |-> df[1].last_updated]))

load_mapping(file) ==
    IF file = NoFile THEN <<>> ELSE MappingFromRows(read_mapping_csv(file), <<>>)

get_ticker(dict, company_name) ==
    LET clean_name == CleanName(company_name)
    IN  IF clean_name \in DOMAIN dict THEN dict[clean_name].ticker ELSE None

get_sector(dict, company_name) ==
    LET clean_name == CleanName(company_name)
    IN  IF clean_name \in DOMAIN dict THEN dict[clean_name].sector ELSE None

get_info(dict, company_name) ==
    LET clean_name == CleanName(company_name)
    IN  IF clean_name \in DOMAIN dict THEN dict[clean_name] ELSE None


\* add_mapping, lines 64-67: the data frame of the file
AddMappingRead(file) == IF file # NoFile THEN read_mapping_csv(file) ELSE <<>>

\* add_mapping, lines 70-71. The .str accessor raises on a column that holds
\* no text (rows whose names are all missing).
StrAccessorRaises(df) == df # <<>> /\ \A i \in DOMAIN df : df[i].company_name = NaN

existing_idx(df, clean_name) ==
    {i \in DOMAIN df : df[i].company_name # NaN /\ strip(upper(df[i].company_name)) = clean_name}

\* A should_update that follows the trust of the sources alone.
should_update_anySource(existing_sector, existing_source, sector, source) ==
    IF existing_sector = "Unknown" /\ sector # "Unknown" THEN TRUE
    ELSE source \in {"yfinance", "openai", "manual"}

\* add_mapping, lines 80-92
should_update(existing_sector, existing_source, sector, source) ==
    IF existing_sector = "Unknown" /\ sector # "Unknown" THEN TRUE
    ELSE IF existing_source = "auto" /\ source \in {"yfinance", "openai", "manual"} THEN TRUE
    ELSE IF existing_sector = "Unknown" /\ sector # "Unknown" THEN TRUE
    ELSE FALSE

\* add_mapping, lines 73-112: the data frame to save
AddMappingFrame(df, company_name, ticker, sector, source, date) ==
    LET idx == existing_idx(df, CleanName(company_name))
    IN  IF idx # {}
        THEN LET first == CHOOSE i \in idx : \A j \in idx : i <= j
             IN  IF should_update(df[first].sector, df[first].source, sector, source)
                 THEN [df EXCEPT ![first].ticker = ticker, ![first].sector = sector,
                                 ![first].source = source, ![first].last_updated = date]
                 ELSE df
        ELSE Append(df, [company_name |-> company_name, ticker |-> ticker, sector |-> sector,
                         source |-> source, last_updated |-> date])

\* add_mapping, lines 115-120: self.mapping after the call
AddMappingMemory(dict, company_name, ticker, sector, source, date) ==
    DictSet(dict, CleanName(company_name),
            [ticker |-> ticker, sector |-> sector, source |-> source, last_updated |-> date])

\* add_mapping, lines 60-127, from the data frame it has read: the file and
\* self.mapping it leaves. An exception leaves both as they were.
AddMappingWrite(tm, df, company_name, ticker, sector, source, date) ==
    IF StrAccessorRaises(df) THEN tm
    ELSE [file |-> to_csv(AddMappingFrame(df, company_name, ticker, sector, source, date)),
          mapping |-> AddMappingMemory(tm.mapping, company_name, ticker, sector, source, date)]

\* ticker_mapping.add_mapping(company_name, ticker, sector, source), alone
add_mapping(tm, company_name, ticker, sector, source, date) ==
    AddMappingWrite(tm, AddMappingRead(tm.file), company_name, ticker, sector, source, date)

\* The global ticker_mapping object (line 198) and its file
TickerMappingNow == [file |-> csv_file, mapping |-> mapping]

SetTickerMapping(tm) ==
    /\ csv_file' = tm.file
    /\ mapping' = tm.mapping


-----------------------------------------------------------------------------
(* The language-model helper (utils/openai_util.py) *)

\* bool(value) for a str, None or NaN (a float, which is true)
Truthy(value) == value \notin {None, ""}

\* `a or b'
Or(a, b) == IF Truthy(a) THEN a ELSE b

\* What a call of the chat service comes to: there is no API key, the call
\* raises, or it answers with the content given.
NoCredential == [kind |-> "no credential"]
ServiceError == [kind |-> "exception"]
Answer(content) == [kind |-> "answer", content |-> content]

get_sector_from_openai(outcome) ==
    IF outcome.kind # "answer" THEN None
    ELSE LET sector == strip(outcome.content)
         IN  IF sector # "" /\ Len(sector) < 50 /\ ~startswith(sector, "I'm sorry")
             THEN sector ELSE None

\* str.isalnum()
isalnum(s) ==
    s # "" /\ \A i \in 1..Len(s) : Ch(s, i) \in WordChars \ {"_"}

get_ticker_from_openai(outcome) ==
    IF outcome.kind # "answer" THEN None
    ELSE LET ticker == upper(strip(outcome.content))
         IN  IF ticker # "" /\ Len(ticker) <= 6 /\ isalnum(ticker) THEN ticker ELSE None

\* get_ticker_with_fallback(company_name): the value, the .cache dict it
\* leaves, and whether the service was called
get_ticker_with_fallback(cache, company_name, outcome) ==
    LET cache_key == "ticker_" \o company_name
        ticker == get_ticker_from_openai(outcome)
    IN  IF cache_key \in DOMAIN cache
        THEN [value |-> cache[cache_key], cache |-> cache, called |-> FALSE]
        ELSE [value |-> ticker,
              cache |-> IF Truthy(ticker) THEN DictSet(cache, cache_key, ticker) ELSE cache,
              called |-> TRUE]

\* get_sector_with_fallback(company_name, ticker)
get_sector_with_fallback(cache, company_name, ticker, outcome) ==
    LET cache_key == IF Truthy(ticker) THEN company_name \o "_" \o ticker ELSE company_name
        sector == get_sector_from_openai(outcome)
    IN  IF cache_key \in DOMAIN cache
        THEN [value |-> cache[cache_key], cache |-> cache, called |-> FALSE]
        ELSE [value |-> sector,
              cache |-> IF Truthy(sector) THEN DictSet(cache, cache_key, sector) ELSE cache,
              called |-> TRUE]


-----------------------------------------------------------------------------
(* The enrichment adapter (utils/yf_util.py) *)

\* What yf.Ticker(ticker).info comes to: it raises, or it is a dict with
\* these fields (None where the dict has no such key).
InfoRaises == [raises |-> TRUE]
Info(quoteType, category, sector, industry) ==
    [raises |-> FALSE, quoteType |-> quoteType, category |-> category,
     sector |-> sector, industry |-> industry]

EtfKeywords_noTrust == <<"ETF", "EXCHANGE TRADED FUND", "FUND">>
EtfKeywords == <<"ETF", "EXCHANGE TRADED FUND", "TRUST", "FUND">>

\* any(keyword in company_name.upper() for keyword in [...])
HasEtfKeyword(company_name) ==
    \E k \in DOMAIN EtfKeywords : Contains(upper(company_name), EtfKeywords[k])

\* What an enrichment call gives back: the value returned, the cache object
\* and file, the helper's .cache dicts, and the services consulted in order.
Resolution(value, tm, cache, calls) ==
    [value |-> value, tm |-> tm, cache |-> cache, calls |-> calls]

\* get_stock_sector, lines 98-106 and 116-124: the language-model tier
OpenAiSectorTier(tm, cache, ticker, company_name, outcome, date, calls) ==
    IF ~Truthy(company_name) THEN Resolution("Unknown", tm, cache, calls)
    ELSE LET fallback == get_sector_with_fallback(cache.sector, company_name, ticker, outcome)
             openai_sector == fallback.value
             cache_after == [cache EXCEPT !.sector = fallback.cache]
             calls_after == IF fallback.called THEN Append(calls, "openai") ELSE calls
         IN  IF Truthy(openai_sector) /\ openai_sector # "Unknown"
             THEN Resolution(openai_sector,
                             add_mapping(tm, company_name, ticker, openai_sector, "openai", date),
                             cache_after, calls_after)
             ELSE Resolution("Unknown", tm, cache_after, calls_after)

\* get_stock_sector(ticker, company_name)
get_stock_sector(tm, cache, ticker, company_name, info, outcome, date) ==
    LET csv_sector == IF Truthy(company_name) THEN get_sector(tm.mapping, company_name) ELSE None
    IN  IF Truthy(company_name) /\ Truthy(csv_sector) /\ csv_sector # "Unknown"
        THEN Resolution(csv_sector, tm, cache, <<>>)
        ELSE IF info.raises
        THEN IF Truthy(company_name) /\ HasEtfKeyword(company_name)
             THEN Resolution("ETF", tm, cache, <<"yfinance">>)
             ELSE OpenAiSectorTier(tm, cache, ticker, company_name, outcome, date, <<"yfinance">>)
        ELSE IF info.quoteType = "ETF" \/ info.category = "ETF"
        THEN Resolution("ETF", tm, cache, <<"yfinance">>)
        ELSE IF Truthy(company_name) /\ HasEtfKeyword(company_name)
        THEN Resolution("ETF", tm, cache, <<"yfinance">>)
        ELSE LET sector == Or(info.sector, Or(info.industry, info.category))
             IN  IF Truthy(sector) /\ sector # "Unknown"
                 THEN Resolution(sector,
                                 IF Truthy(company_name)
                                 THEN add_mapping(tm, company_name, ticker, sector, "yfinance", date)
                                 ELSE tm,
                                 cache, <<"yfinance">>)
                 ELSE OpenAiSectorTier(tm, cache, ticker, company_name, outcome, date, <<"yfinance">>)

\* extract_ticker_from_cusip, lines 187-219, in the order of the dict
local_mapping ==
    <<<<"APPLE", "AAPL">>, <<"MICROSOFT", "MSFT">>, <<"ALPHABET", "GOOGL">>,
      <<"AMAZON", "AMZN">>, <<"TESLA", "TSLA">>, <<"BERKSHIRE", "BRK.A">>,
      <<"JPMORGAN", "JPM">>, <<"BANK OF AMERICA", "BAC">>, <<"WELLS FARGO", "WFC">>,
      <<"UNITEDHEALTH", "UNH">>, <<"JOHNSON & JOHNSON", "JNJ">>,
      <<"PROCTER & GAMBLE", "PG">>, <<"VISA", "V">>, <<"MASTERCARD", "MA">>,
      <<"NVIDIA", "NVDA">>, <<"META", "META">>, <<"NETFLIX", "NFLX">>,
      <<"SALESFORCE", "CRM">>, <<"ORACLE", "ORCL">>, <<"CISCO", "CSCO">>,
      <<"HESS", "HES">>, <<"ADVANCED MICRO DEVICES", "AMD">>,
      <<"BRIDGEBIO PHARMA", "BBIO">>, <<"MARVELL TECHNOLOGY", "MRVL">>,
      <<"DISCOVER FINL SVCS", "DFS">>, <<"ANSYS", "ANSS">>, <<"SHELL", "SHEL">>,
      <<"GOLDMAN SACHS", "GS">>, <<"UNITED STATES STL", "X">>, <<"ALLSTATE", "ALL">>,
      <<"HCA HEALTHCARE", "HCA">>>>

\* lines 222-224: the places of the fragments contained in clean_name
LocalMatches(clean_name) ==
    {k \in DOMAIN local_mapping : Contains(clean_name, local_mapping[k][1])}

\* extract_ticker_from_cusip(cusip)
extract_ticker_from_cusip(tm, cache, cusip, outcome, date) ==
    LET clean_name == CleanName(cusip)
        csv_ticker == get_ticker(tm.mapping, clean_name)
        found == LocalMatches(clean_name)
    IN  IF Truthy(csv_ticker) THEN Resolution(csv_ticker, tm, cache, <<>>)
        ELSE IF found # {}
        THEN Resolution(local_mapping[CHOOSE k \in found : \A j \in found : k <= j][2],
                        tm, cache, <<"table">>)
        ELSE LET fallback == get_ticker_with_fallback(cache.ticker, cusip, outcome)
                 openai_ticker == fallback.value
                 cache_after == [cache EXCEPT !.ticker = fallback.cache]
                 calls_after == IF fallback.called THEN <<"table", "openai">> ELSE <<"table">>
             IN  IF Truthy(openai_ticker)
                 THEN Resolution(openai_ticker,
                                 add_mapping(tm, clean_name, openai_ticker, "Unknown", "openai", date),
                                 cache_after, calls_after)
                 ELSE Resolution(None, tm, cache_after, calls_after)


-----------------------------------------------------------------------------
(* The ticker cache and the enrichment calls, one call at a time *)

MaxDay == 1

AddNames == {"Acme Corp", " acme corp"}
Tickers == {"ACM", "NA"}
Sectors == {"Unknown", "Technology"}
Sources == {"auto", "yfinance", "openai", "manual"}

MappingRow(company_name, ticker, sector, source, date) ==
    [company_name |-> company_name, ticker |-> ticker, sector |-> sector,
     source |-> source, last_updated |-> date]

\* data/company_ticker.csv at the start: absent, or one entry of any sector
\* and provenance written on day 0.
InitialFiles ==
    {NoFile} \cup
    {to_csv(<<MappingRow("Acme Corp", "ACM", sector, source, strftime(0))>>) :
        sector \in Sectors, source \in Sources}

\* The (ticker, company_name) pairs sectors are asked for, the names tickers
\* are asked for, and what the services come to.
SectorRequests == {<<"ACM", "Acme Corp">>, <<"SPY", "Spy Trust">>, <<"ACM", None>>}
CusipRequests == {"Acme Corp", "Apple Inc"}
InfoOutcomes ==
    {InfoRaises, Info("ETF", None, None, None), Info("EQUITY", None, "Energy", None),
     Info("EQUITY", None, None, None)}
SectorOutcomes ==
    {NoCredential, ServiceError, Answer(" Technology"), Answer("I'm sorry, no"), Answer("N/A")}
TickerOutcomes == {NoCredential, ServiceError, Answer("acm"), Answer("not a ticker")}

EngineIdle ==
    /\ coverpage_df = None
    /\ infotable_df = None
    /\ fund_lookup = <<>>
    /\ ticker_lookup = <<>>
    /\ loaded = FALSE
    /\ result = NoCall

DiskIdle ==
    /\ coverpage_file = NoFile
    /\ infotable_file = NoFile
    /\ chunk_files = NoDir
    /\ submission_file = NoFile
    /\ summarypage_file = NoFile
    /\ metadata_file = NoFile
    /\ loaded_rows = NoCall

\* ticker_mapping = TickerMapping(): __init__ loads the file
CacheInit ==
    /\ csv_file \in InitialFiles
    /\ mapping = load_mapping(csv_file)
    /\ today = 0
    /\ caller = <<>>
    /\ resolved = NoCall
    /\ openai_cache = [ticker |-> <<>>, sector |-> <<>>]
    /\ EngineIdle
    /\ DiskIdle

CacheFrame == UNCHANGED <<searchVars, diskVars, caller>>

\* ticker_mapping.add_mapping(company_name, ticker, sector, source)
AddMapping ==
    /\ resolved.op = "none"
    /\ \E company_name \in AddNames, ticker \in Tickers, sector \in Sectors, source \in Sources :
         /\ SetTickerMapping(add_mapping(TickerMappingNow, company_name, ticker, sector,
                                         source, strftime(today)))
         /\ resolved' = [op |-> "add_mapping", company_name |-> company_name,
                         ticker |-> ticker, sector |-> sector, source |-> source,
                         before |-> TickerMappingNow]
    /\ UNCHANGED <<today, openai_cache>>
    /\ CacheFrame

\* ticker_mapping.get_info(company_name), which reads what get_ticker and
\* get_sector read
GetInfo ==
    /\ resolved.op = "none"
    /\ \E company_name \in AddNames :
         resolved' = [op |-> "get_info", company_name |-> company_name,
                      value |-> get_info(mapping, company_name),
                      ticker |-> get_ticker(mapping, company_name),
                      sector |-> get_sector(mapping, company_name)]
    /\ UNCHANGED <<csv_file, mapping, today, openai_cache>>
    /\ CacheFrame

\* get_stock_sector(ticker, company_name)
GetStockSector ==
    /\ resolved.op = "none"
    /\ \E request \in SectorRequests, info \in InfoOutcomes, outcome \in SectorOutcomes :
         \E r \in {get_stock_sector(TickerMappingNow, openai_cache, request[1], request[2],
                                    info, outcome, strftime(today))} :
            /\ SetTickerMapping(r.tm)
            /\ openai_cache' = r.cache
            /\ resolved' = [op |-> "get_stock_sector", ticker |-> request[1],
                            company_name |-> request[2], value |-> r.value,
                            calls |-> r.calls, before |-> TickerMappingNow]
    /\ UNCHANGED today
    /\ CacheFrame

\* extract_ticker_from_cusip(cusip)
ExtractTicker ==
    /\ resolved.op = "none"
    /\ \E cusip \in CusipRequests, outcome \in TickerOutcomes :
         \E r \in {extract_ticker_from_cusip(TickerMappingNow, openai_cache, cusip,
                                             outcome, strftime(today))} :
            /\ SetTickerMapping(r.tm)
            /\ openai_cache' = r.cache
            /\ resolved' = [op |-> "extract_ticker_from_cusip", company_name |-> cusip,
                            value |-> r.value, calls |-> r.calls, before |-> TickerMappingNow]
    /\ UNCHANGED today
    /\ CacheFrame

\* The caller takes what the call returned.
CacheReturn ==
    /\ resolved.op # "none"
    /\ resolved' = NoCall
    /\ UNCHANGED <<csv_file, mapping, today, openai_cache>>
    /\ CacheFrame

\* A day passes.
Tick ==
    /\ resolved.op = "none"
    /\ today < MaxDay
    /\ today' = today + 1
    /\ UNCHANGED <<csv_file, mapping, resolved, openai_cache>>
    /\ CacheFrame

\* The process starts again: the modules are imported afresh.
Restart ==
    /\ resolved.op = "none"
    /\ mapping' = load_mapping(csv_file)
    /\ openai_cache' = [ticker |-> <<>>, sector |-> <<>>]
    /\ UNCHANGED <<csv_file, today, resolved>>
    /\ CacheFrame

CacheNext ==
    \/ AddMapping
    \/ GetInfo
    \/ GetStockSector
    \/ ExtractTicker
    \/ CacheReturn
    \/ Tick
    \/ Restart

CacheSpec == CacheInit /\ [][CacheNext]_vars


-----------------------------------------------------------------------------
(* Properties of the ticker cache *)

\* The rows of the persisted file entered under the normalized name of
\* company_name, in file order.
PersistedEntries(file, company_name) ==
    SelectSeq(AddMappingRead(file),
              LAMBDA row : row.company_name # NaN
                           /\ strip(upper(row.company_name)) = strip(upper(company_name)))

\* The overwrite policy as the specification words it.
PolicyAllowsReplace(existing, sector, source) ==
    \/ existing.sector = "Unknown" /\ sector # "Unknown"
    \/ existing.source = "auto" /\ source \in {"yfinance", "openai", "manual"}

AddedOverExisting ==
    /\ resolved.op = "add_mapping"
    /\ PersistedEntries(resolved.before.file, resolved.company_name) # <<>>

\* C3: an add_mapping for a company that has a persisted entry changes the
\* persisted entries only if the existing sector is "Unknown" and the new one
\* is not, or the existing source is "auto" and the new source is yfinance,
\* openai or manual; in every other case the file holds, read back value for
\* value, the entries it held before the call.
C3_OverwritePolicy ==
    AddedOverExisting =>
        LET existing == PersistedEntries(resolved.before.file, resolved.company_name)[1]
        IN  ~PolicyAllowsReplace(existing, resolved.sector, resolved.source)
                => AddMappingRead(csv_file) = AddMappingRead(resolved.before.file)

\* An add_mapping with another ticker, on a later day, for an entry the policy
\* protects.
C3_Witness ==
    /\ AddedOverExisting
    /\ LET existing == PersistedEntries(resolved.before.file, resolved.company_name)[1]
       IN  /\ ~PolicyAllowsReplace(existing, resolved.sector, resolved.source)
           /\ existing.ticker # resolved.ticker
           /\ existing.last_updated # strftime(today)
           /\ resolved.source \in {"yfinance", "openai", "manual"}
    /\ csv_file = resolved.before.file

\* The entry of self.mapping and the persisted entry of a company agree.
Coherent(tm, company_name) ==
    LET entries == PersistedEntries(tm.file, company_name)
        clean_name == CleanName(company_name)
    IN  /\ Len(entries) = 1
        /\ clean_name \in DOMAIN tm.mapping
        /\ tm.mapping[clean_name] =
              [ticker |-> entries[1].ticker, sector |-> entries[1].sector,
               source |-> entries[1].source, last_updated |-> entries[1].last_updated]

\* C4: after an add_mapping with source "auto" for a company cached with a
\* known sector and a source other than "auto", get_info, get_ticker and
\* get_sector return what they returned before the call.
C4_CachedEntryKept ==
    (/\ resolved.op = "add_mapping"
     /\ resolved.source = "auto"
     /\ Coherent(resolved.before, resolved.company_name)
     /\ get_sector(resolved.before.mapping, resolved.company_name) \notin {"Unknown", NaN}
     /\ resolved.before.mapping[CleanName(resolved.company_name)].source # "auto")
        => /\ CleanName(resolved.company_name) \in DOMAIN mapping
           /\ get_info(mapping, resolved.company_name)
                 = get_info(resolved.before.mapping, resolved.company_name)
           /\ get_ticker(mapping, resolved.company_name)
                 = get_ticker(resolved.before.mapping, resolved.company_name)
           /\ get_sector(mapping, resolved.company_name)
                 = get_sector(resolved.before.mapping, resolved.company_name)

\* C7: when get_stock_sector or extract_ticker_from_cusip has resolved a named
\* company in a tier after the cache lookup, the cache holds an entry under
\* the company's normalized name once the call has returned.
C7_ResolutionWrittenBack ==
    (/\ resolved.op \in {"get_stock_sector", "extract_ticker_from_cusip"}
     /\ resolved.calls # <<>>
     /\ Truthy(resolved.company_name)
     /\ resolved.value \notin {None, "Unknown"})
        => /\ CleanName(resolved.company_name) \in DOMAIN mapping
           /\ PersistedEntries(csv_file, resolved.company_name) # <<>>


\* The ticker of the first fragment of the hardcoded table that the name contains
FirstFragmentTicker(clean_name) ==
    local_mapping[CHOOSE k \in LocalMatches(clean_name) :
                     \A j \in LocalMatches(clean_name) : k <= j][2]
ValidTicker(value) ==
    value \notin {None, NaN} /\ value # "" /\ Len(value) <= 6 /\ isalnum(value)

\* C26: extract_ticker_from_cusip resolves in a fixed order and the first
\* success wins: a ticker cached for the normalized name is returned with
\* neither the hardcoded table nor the language model consulted; otherwise
\* the ticker of the first hardcoded fragment the name contains, with no call
\* of the language model; otherwise a validated language-model answer;
\* otherwise null. What it returns is always one of these.
C26_ResolutionOrder ==
    resolved.op = "extract_ticker_from_cusip" =>
        LET clean_name == CleanName(resolved.company_name)
            cached == IF clean_name \in DOMAIN resolved.before.mapping
                      THEN resolved.before.mapping[clean_name].ticker ELSE None
        IN  IF clean_name \in DOMAIN resolved.before.mapping /\ cached \notin {None, NaN, ""}
            THEN resolved.value = cached /\ resolved.calls = <<>>
            ELSE IF LocalMatches(clean_name) # {}
            THEN /\ resolved.value = FirstFragmentTicker(clean_name)
                 /\ "openai" \notin Range(resolved.calls)
            ELSE resolved.value = None \/ ValidTicker(resolved.value)

\* The name contains a fund-indicator keyword, whatever its case
NamesAFund(company_name) ==
    \E keyword \in {"ETF", "EXCHANGE TRADED FUND", "TRUST", "FUND"} :
        Contains(upper(company_name), keyword)
\* The cache holds no sector, or the sector "Unknown", for the name
NoKnownSector(dict, company_name) ==
    \/ CleanName(company_name) \notin DOMAIN dict
    \/ dict[CleanName(company_name)].sector \in {None, "", "Unknown"}

\* C27: for a company name that contains a fund-indicator keyword and has no
\* known sector in the cache, get_stock_sector returns "ETF" after asking the
\* quote service, whatever the service answered: another sector, nothing, or
\* an error; the language model is not asked.
C27_FundKeywordIsEtf ==
    (/\ resolved.op = "get_stock_sector"
     /\ Truthy(resolved.company_name)
     /\ NamesAFund(resolved.company_name)
     /\ NoKnownSector(resolved.before.mapping, resolved.company_name))
        => /\ resolved.value = "ETF"
           /\ resolved.calls = <<"yfinance">>

\* C27 happens: a lookup for "Spy Trust", which no cache entry knows, came
\* back as "ETF".
C27_Witness ==
    /\ resolved.op = "get_stock_sector"
    /\ resolved.company_name = "Spy Trust"
    /\ resolved.ticker = "SPY"
    /\ NoKnownSector(resolved.before.mapping, "Spy Trust")
    /\ resolved.value = "ETF"

\* C28: once get_stock_sector(t, c) with a company name has returned a
\* sector other than "Unknown" through the quote service or the language
\* model, the "ETF" classification included, the same call made again
\* returns that sector from the cache, with no call of the quote service or
\* the language model, whatever these would answer.
C28_RepeatFromCache ==
    (/\ resolved.op = "get_stock_sector"
     /\ Truthy(resolved.company_name)
     /\ resolved.calls # <<>>
     /\ resolved.value \notin {None, "Unknown"})
        => \A info \in InfoOutcomes, outcome \in SectorOutcomes :
              LET again == get_stock_sector(TickerMappingNow, openai_cache, resolved.ticker,
                                            resolved.company_name, info, outcome,
                                            strftime(today))
              IN  again.value = resolved.value /\ again.calls = <<>>

\* Neither self.mapping nor the file holds an entry of the company.
NotYetCached(tm, company_name) ==
    /\ CleanName(company_name) \notin DOMAIN tm.mapping
    /\ PersistedEntries(tm.file, company_name) = <<>>

\* C16: after an add_mapping for a company that was not in the cache,
\* get_info gives the ticker, sector, source and date written, for every
\* spelling of the name with the same normalized key, both on the object
\* that wrote and on a TickerMapping loaded afresh from the file.
C16_RoundTrip ==
    (resolved.op = "add_mapping" /\ NotYetCached(resolved.before, resolved.company_name)) =>
        LET written == [ticker |-> resolved.ticker, sector |-> resolved.sector,
                        source |-> resolved.source, last_updated |-> strftime(today)]
        IN  \A other \in {n \in AddNames : CleanName(n) = CleanName(resolved.company_name)} :
                /\ get_info(mapping, other) = written
                /\ get_info(load_mapping(csv_file), other) = written

-----------------------------------------------------------------------------
(* Concurrent callers of add_mapping on one cache file *)

NumCallers == 2

Callers == 1..NumCallers
NewNames == {"Acme Corp", "Zeta Inc"}

\* The file the callers share: absent, or with the entry of another company.
SharedFiles == {NoFile, to_csv(<<MappingRow("Beta Ltd", "BET", "Energy", "manual", strftime(0))>>)}

Waiting == [pc |-> "idle", company_name |-> None, ticker |-> None, sector |-> None,
            source |-> None, df |-> <<>>]

ConcurrentInit ==
    /\ csv_file \in SharedFiles
    /\ mapping = load_mapping(csv_file)
    /\ today = 0
    /\ caller = [c \in Callers |-> Waiting]
    /\ resolved = NoCall
    /\ openai_cache = [ticker |-> <<>>, sector |-> <<>>]
    /\ EngineIdle
    /\ DiskIdle

ConcurrentFrame == UNCHANGED <<searchVars, diskVars, today, resolved, openai_cache>>

\* Caller c enters add_mapping(company_name, ticker, sector, source).
Call(c) ==
    /\ caller[c].pc = "idle"
    /\ \E company_name \in NewNames, ticker \in Tickers, sector \in Sectors, source \in Sources :
         caller' = [caller EXCEPT ![c] =
                        [pc |-> "entered", company_name |-> company_name, ticker |-> ticker,
                         sector |-> sector, source |-> source, df |-> <<>>]]
    /\ UNCHANGED <<csv_file, mapping>>
    /\ ConcurrentFrame

\* Lines 64-67: caller c reads the file into its data frame.
ReadFile(c) ==
    /\ caller[c].pc = "entered"
    /\ caller' = [caller EXCEPT ![c].pc = "read", ![c].df = AddMappingRead(csv_file)]
    /\ UNCHANGED <<csv_file, mapping>>
    /\ ConcurrentFrame

\* Lines 70-124: caller c changes its data frame, sets self.mapping and
\* writes the file, then returns.
WriteFile(c) ==
    /\ caller[c].pc = "read"
    /\ SetTickerMapping(AddMappingWrite(TickerMappingNow, caller[c].df, caller[c].company_name,
                                        caller[c].ticker, caller[c].sector, caller[c].source,
                                        strftime(today)))
    /\ caller' = [caller EXCEPT ![c].pc = "returned"]
    /\ ConcurrentFrame

ConcurrentNext == \E c \in Callers : Call(c) \/ ReadFile(c) \/ WriteFile(c)

ConcurrentSpec == ConcurrentInit /\ [][ConcurrentNext]_vars

\* C5: once two concurrent add_mapping calls for different new names have
\* both returned, the persisted file has an entry for each of the two names.
C5_NoLostUpdate ==
    \A c, d \in Callers :
        (/\ caller[c].pc = "returned"
         /\ caller[d].pc = "returned"
         /\ CleanName(caller[c].company_name) # CleanName(caller[d].company_name))
            => /\ PersistedEntries(csv_file, caller[c].company_name) # <<>>
               /\ PersistedEntries(csv_file, caller[d].company_name) # <<>>


-----------------------------------------------------------------------------
(* The chunked positions table (utils/split_data.py, utils/reassemble_data.py,
   utils/data_processor.py) *)

\* str(n) for an int n >= 0
RECURSIVE str(_)
str(n) == IF n < 10 THEN Ch(DigitChars, n + 1) ELSE str(n \div 10) \o Ch(DigitChars, (n % 10) + 1)

\* f'INFOTABLE_chunk_{chunk_num + 1}.tsv'
ChunkFileName(chunk_num) == "INFOTABLE_chunk_" \o str(chunk_num + 1) \o ".tsv"

\* split_infotable, lines 36-55: the files on disk after chunks chunk_num..
\* num_chunks - 1 are written. Every chunk before the last holds
\* lines_per_chunk data lines, so chunk chunk_num starts after
\* chunk_num * lines_per_chunk data lines of the input.
RECURSIVE WriteChunks(_, _, _, _)
WriteChunks(files, input_file, num_chunks, chunk_num) ==
    IF chunk_num >= num_chunks THEN files
    ELSE LET data_lines == Len(input_file) - 1
             lines_per_chunk == data_lines \div num_chunks
             lines_to_write == IF chunk_num = num_chunks - 1
                               THEN data_lines - (chunk_num * lines_per_chunk)
                               ELSE lines_per_chunk
             first == 1 + (chunk_num * lines_per_chunk)
             chunk == <<input_file[1]>> \o SubSeq(input_file, first + 1, first + lines_to_write)
         IN  WriteChunks(DictSet(files, ChunkFileName(chunk_num), chunk),
                         input_file, num_chunks, chunk_num + 1)

\* split_infotable(input_file, output_dir, num_chunks): what it raises and
\* the output directory it leaves (os.makedirs comes before the input is
\* opened)
split_infotable(input_file, output_dir, num_chunks) ==
    IF input_file = NoFile THEN [raised |-> "FileNotFoundError", dir |-> Dir(output_dir.files)]
    ELSE [raised |-> "none", dir |-> Dir(WriteChunks(output_dir.files, input_file, num_chunks, 0))]

\* glob.glob(os.path.join(chunks_dir, 'INFOTABLE_chunk_*.tsv')), sorted
GlobChunks(dir) ==
    sorted({f \in DOMAIN dir.files :
              /\ Len(f) >= Len("INFOTABLE_chunk_") + Len(".tsv")
              /\ startswith(f, "INFOTABLE_chunk_")
              /\ endswith(f, ".tsv")})

\* SEC13FProcessor._load_from_chunks: what it raises and the table
ProcessorLoadFromChunks(dir) ==
    IF ~dir.exists THEN [raised |-> "FileNotFoundError", rows |-> None]
    ELSE LET chunk_names == GlobChunks(dir)
         IN  IF chunk_names = <<>>
             THEN [raised |-> "FileNotFoundError", rows |-> None]
             ELSE [raised |-> "none", rows |-> ConcatChunks(dir.files, chunk_names)]

\* reassemble_infotable, lines 31-45: the header of the first chunk, then the
\* data lines of every chunk
RECURSIVE CopyChunks(_, _, _)
CopyChunks(files, names, header_written) ==
    IF names = <<>> THEN <<>>
    ELSE (IF header_written THEN <<>> ELSE <<files[names[1]][1]>>)
         \o Tail(files[names[1]])
         \o CopyChunks(files, Tail(names), TRUE)

\* reassemble_infotable(chunks_dir, output_file): how it ends and the output
\* file it leaves
reassemble_infotable(dir, output_file) ==
    LET chunk_names == GlobChunks(dir)
    IN  IF chunk_names = <<>> THEN [raised |-> "SystemExit", file |-> output_file]
        ELSE [raised |-> "none", file |-> CopyChunks(dir.files, chunk_names, FALSE)]


-----------------------------------------------------------------------------
(* Splitting the positions file and loading it back from the chunks *)

MaxLines == 11
MaxChunks == 10

\* n position rows, told apart by their VALUE
ChunkRows(n) ==
    [i \in 1..n |-> Position(AccessionId(1), "APPLE INC", "COM", "037833100", i, i, NaN)]

ChunkInit ==
    /\ coverpage_file = <<CoverHeader, [ACCESSION_NUMBER |-> AccessionId(1),
                                        FILINGMANAGER_NAME |-> "Fund X"]>>
    /\ infotable_file \in {<<InfoHeader>> \o ChunkRows(n) : n \in 0..MaxLines}
    /\ chunk_files \in {NoDir, Dir(<<>>), Dir(DictSet(<<>>, "README.md", <<"chunks">>))}
    /\ OtherFilesPresent
    /\ loaded_rows = NoCall
    /\ EngineIdle
    /\ CacheIdle

ChunkFrame == UNCHANGED <<cacheVars, result>>
EngineFrame == UNCHANGED <<coverpage_df, infotable_df, fund_lookup, ticker_lookup, loaded>>

\* python utils/split_data.py, for any number of chunks, into a directory
\* that holds no chunk yet
SplitInfotable ==
    /\ loaded_rows.op = "none"
    /\ GlobChunks(chunk_files) = <<>>
    /\ \E num_chunks \in 1..MaxChunks :
         \E r \in {split_infotable(infotable_file, chunk_files, num_chunks)} :
            /\ chunk_files' = r.dir
            /\ loaded_rows' = [op |-> "split_infotable", raised |-> r.raised,
                               num_chunks |-> num_chunks]
    /\ UNCHANGED <<coverpage_file, infotable_file, otherFiles>>
    /\ EngineFrame
    /\ ChunkFrame

\* The primary file is left out of the checkout.
RemoveInfotable ==
    /\ loaded_rows.op = "none"
    /\ infotable_file # NoFile
    /\ infotable_file' = NoFile
    /\ UNCHANGED <<coverpage_file, chunk_files, otherFiles, loaded_rows>>
    /\ EngineFrame
    /\ ChunkFrame

\* SEC13FProcessor._load_from_chunks(), which load_data calls when
\* INFOTABLE.tsv does not exist
ProcessorLoad ==
    /\ loaded_rows.op = "none"
    /\ infotable_file = NoFile
    /\ \E r \in {ProcessorLoadFromChunks(chunk_files)} :
         loaded_rows' = [op |-> "SEC13FProcessor._load_from_chunks", raised |-> r.raised,
                         rows |-> r.rows, from_chunks |-> TRUE]
    /\ UNCHANGED <<coverpage_file, infotable_file, chunk_files, otherFiles>>
    /\ EngineFrame
    /\ ChunkFrame

\* HedgeFundSearchEngine(data_dir).load_data()
EngineLoad ==
    /\ loaded_rows.op = "none"
    /\ ~loaded
    /\ \E e \in {load_data(Engine)} :
         /\ SetEngine(e)
         /\ loaded_rows' = [op |-> "HedgeFundSearchEngine.load_data", raised |-> e.raised,
                            rows |-> e.infotable_df, from_chunks |-> infotable_file = NoFile]
    /\ UNCHANGED <<coverpage_file, infotable_file, chunk_files, otherFiles>>
    /\ ChunkFrame

\* A new HedgeFundSearchEngine(data_dir) takes the place of the loaded one.
NewEngine ==
    /\ loaded_rows.op = "none"
    /\ loaded
    /\ coverpage_df' = None
    /\ infotable_df' = None
    /\ fund_lookup' = <<>>
    /\ ticker_lookup' = <<>>
    /\ loaded' = FALSE
    /\ UNCHANGED diskVars
    /\ ChunkFrame

\* python utils/reassemble_data.py
Reassemble ==
    /\ loaded_rows.op = "none"
    /\ \E r \in {reassemble_infotable(chunk_files, infotable_file)} :
         /\ infotable_file' = r.file
         /\ loaded_rows' = [op |-> "reassemble_infotable", raised |-> r.raised,
                            rows |-> IF r.raised = "none" THEN Tail(r.file) ELSE None,
                            from_chunks |-> infotable_file = NoFile]
    /\ UNCHANGED <<coverpage_file, chunk_files, otherFiles>>
    /\ EngineFrame
    /\ ChunkFrame

\* The tool or loader has ended.
ChunkReturn ==
    /\ loaded_rows.op # "none"
    /\ loaded_rows' = NoCall
    /\ UNCHANGED <<coverpage_file, infotable_file, chunk_files, otherFiles>>
    /\ EngineFrame
    /\ ChunkFrame

ChunkNext ==
    \/ SplitInfotable
    \/ RemoveInfotable
    \/ ProcessorLoad
    \/ EngineLoad
    \/ NewEngine
    \/ Reassemble
    \/ ChunkReturn

ChunkSpec == ChunkInit /\ [][ChunkNext]_vars

\* The number n of the chunk file INFOTABLE_chunk_<n>.tsv
RECURSIVE int(_)
int(digits) ==
    IF digits = "" THEN 0
    ELSE (10 * int(SubSeq(digits, 1, Len(digits) - 1)))
         + (IndexIn(Ch(digits, Len(digits)), DigitChars) - 1)

ChunkNumber(name) == int(SubSeq(name, Len("INFOTABLE_chunk_") + 1, Len(name) - Len(".tsv")))

\* The chunk files of the directory, in ascending order of their numbers
RECURSIVE ByNumber(_)
ByNumber(names) ==
    IF names = {} THEN <<>>
    ELSE LET least == CHOOSE n \in names : \A m \in names : ChunkNumber(n) <= ChunkNumber(m)
         IN  <<least>> \o ByNumber(names \ {least})

LoadedFromChunks ==
    /\ loaded_rows.op \in {"SEC13FProcessor._load_from_chunks",
                           "HedgeFundSearchEngine.load_data", "reassemble_infotable"}
    /\ loaded_rows.from_chunks
    /\ loaded_rows.raised = "none"

\* C6: with the primary file absent, each of the loaders yields the data rows
\* of the chunk files INFOTABLE_chunk_<n>.tsv in ascending order of n, for
\* any number of chunks.
C6_NumericOrder ==
    LoadedFromChunks =>
        loaded_rows.rows =
            ConcatChunks(chunk_files.files,
                         ByNumber({f \in DOMAIN chunk_files.files : startswith(f, "INFOTABLE_chunk_")}))


\* The chunk files of the directory, and the number of data lines of one
ChunkFilesOf(dir) == {f \in DOMAIN dir.files : startswith(f, "INFOTABLE_chunk_")}
DataLines(file) == Len(file) - 1

\* The row a header line gives when it is read as a line of data
HeaderAsRow == [col \in Range(InfoHeader) |-> col]

\* C20: a load from chunk files that each begin with the same header yields
\* as many data rows as the chunks have data lines together, and no row of
\* it is the header; the file reassemble_infotable writes begins with the
\* header and holds it once.
C20_RowsAddUp ==
    (LoadedFromChunks
       /\ \A f \in ChunkFilesOf(chunk_files) : chunk_files.files[f][1] = InfoHeader)
        => /\ Len(loaded_rows.rows)
                = SumOf([i \in 1..Len(sorted(ChunkFilesOf(chunk_files))) |->
                           [n |-> DataLines(chunk_files.files[sorted(ChunkFilesOf(chunk_files))[i]])]],
                        "n")
           /\ \A i \in DOMAIN loaded_rows.rows : loaded_rows.rows[i] # HeaderAsRow
           /\ loaded_rows.op = "reassemble_infotable" => infotable_file[1] = InfoHeader

\* C20 happens: the processor has loaded 5 rows from two chunk files, one of
\* 3 data lines and one of 2.
C20_Witness ==
    /\ LoadedFromChunks
    /\ loaded_rows.op = "SEC13FProcessor._load_from_chunks"
    /\ Cardinality(ChunkFilesOf(chunk_files)) = 2
    /\ {DataLines(chunk_files.files[f]) : f \in ChunkFilesOf(chunk_files)} = {2, 3}
    /\ Len(loaded_rows.rows) = 5

-----------------------------------------------------------------------------
(* SEC13FProcessor.load_data over a data directory with files left out *)

\* SEC13FProcessor(data_dir), as __init__ leaves it (data_processor.py:23-30),
\* and the exception the call in progress has raised
Processor ==
    [infotable_df |-> None, coverpage_df |-> None, submission_df |-> None,
     summarypage_df |-> None, metadata |-> None, search_engine |-> None, raised |-> "none"]

\* HedgeFundSearchEngine(data_dir), as __init__ leaves it (search_utils.py:13-19)
NewSearchEngine ==
    [coverpage_df |-> None, infotable_df |-> None, fund_lookup |-> <<>>,
     ticker_lookup |-> <<>>, loaded |-> FALSE]

\* SEC13FProcessor.load_data: pd.read_csv raises FileNotFoundError for a
\* path that does not exist, and what was assigned before stays assigned.
ProcessorLoadData(p) ==
    LET chunks == ProcessorLoadFromChunks(chunk_files)
        p1 == [p EXCEPT !.infotable_df =
                  IF infotable_file # NoFile THEN read_csv(infotable_file) ELSE chunks.rows]
        p2 == [p1 EXCEPT !.coverpage_df = read_csv(coverpage_file)]
        p3 == [p2 EXCEPT !.submission_df = read_csv(submission_file)]
        p4 == [p3 EXCEPT !.summarypage_df = read_csv(summarypage_file)]
        p5 == IF metadata_file # NoFile THEN [p4 EXCEPT !.metadata = metadata_file[1]] ELSE p4
    IN  IF infotable_file = NoFile /\ chunks.raised # "none"
        THEN [p EXCEPT !.raised = chunks.raised]
        ELSE IF coverpage_file = NoFile THEN [p1 EXCEPT !.raised = "FileNotFoundError"]
        ELSE IF submission_file = NoFile THEN [p2 EXCEPT !.raised = "FileNotFoundError"]
        ELSE IF summarypage_file = NoFile THEN [p3 EXCEPT !.raised = "FileNotFoundError"]
        ELSE [p5 EXCEPT !.search_engine = NewSearchEngine]

\* The data directory with any of its files left out; the chunk directory
\* missing, empty, holding no chunk, or holding one.
LoadInit ==
    /\ coverpage_file \in {NoFile, <<CoverHeader, [ACCESSION_NUMBER |-> AccessionId(1),
                                                   FILINGMANAGER_NAME |-> "Fund X"]>>}
    /\ infotable_file \in {NoFile, <<InfoHeader>> \o ChunkRows(2)}
    /\ chunk_files \in {NoDir, Dir(<<>>), Dir(DictSet(<<>>, "README.md", <<"chunks">>)),
                        Dir(DictSet(<<>>, ChunkFileName(0), <<InfoHeader>> \o ChunkRows(1)))}
    /\ submission_file \in {NoFile, <<SubmissionHeader>>}
    /\ summarypage_file \in {NoFile, <<SummaryHeader>>}
    /\ metadata_file \in {NoFile, <<"{}">>}
    /\ loaded_rows = NoCall
    /\ EngineIdle
    /\ CacheIdle

\* SEC13FProcessor(data_dir).load_data()
ProcessorLoadAll ==
    /\ loaded_rows.op = "none"
    /\ \E p \in {ProcessorLoadData(Processor)} :
         loaded_rows' = [op |-> "SEC13FProcessor.load_data", raised |-> p.raised,
                         rows |-> p.infotable_df, from_chunks |-> infotable_file = NoFile,
                         processor |-> p]
    /\ UNCHANGED <<coverpage_file, infotable_file, chunk_files, otherFiles>>
    /\ EngineFrame
    /\ ChunkFrame

\* SEC13FProcessor.get_summary_stats: the load is skipped when infotable_df
\* is set; subscripting a coverpage_df that is still None raises TypeError.
get_summary_stats(p) ==
    LET q == IF p.infotable_df = None THEN ProcessorLoadData(p) ELSE p
    IN  IF q.raised # "none" THEN [processor |-> q, raised |-> q.raised, value |-> None]
        ELSE IF q.coverpage_df = None
        THEN [processor |-> q, raised |-> "TypeError", value |-> None]
        ELSE [processor |-> q, raised |-> "none",
              value |-> [total_funds |-> Cardinality({q.coverpage_df[i].FILINGMANAGER_NAME :
                                                         i \in DOMAIN q.coverpage_df} \ {NaN}),
                         total_holdings |-> Len(q.infotable_df),
                         total_aum_billions |-> Fraction(SumOf(q.infotable_df, "VALUE"), 1000),
                         unique_securities |-> Cardinality({q.infotable_df[i].NAMEOFISSUER :
                                                               i \in DOMAIN q.infotable_df} \ {NaN})]]

\* processor.get_summary_stats(), on a new processor or on the one whose
\* load_data has just returned or raised
ProcessorSummaryStats ==
    /\ loaded_rows.op \in {"none", "SEC13FProcessor.load_data"}
    /\ \E p \in {IF loaded_rows.op = "none" THEN Processor
                 ELSE [loaded_rows.processor EXCEPT !.raised = "none"]} :
         \E r \in {get_summary_stats(p)} :
            loaded_rows' = [op |-> "SEC13FProcessor.get_summary_stats", raised |-> r.raised,
                            rows |-> r.value, from_chunks |-> infotable_file = NoFile,
                            processor |-> r.processor, skipped_load |-> p.infotable_df # None]
    /\ UNCHANGED <<coverpage_file, infotable_file, chunk_files, otherFiles>>
    /\ EngineFrame
    /\ ChunkFrame

LoadNext ==
    \/ ProcessorLoadAll
    \/ ProcessorSummaryStats
    \/ EngineLoad
    \/ NewEngine
    \/ ChunkReturn

LoadSpec == LoadInit /\ [][LoadNext]_vars

\* No file of the chunk directory is named INFOTABLE_chunk_*.
NoChunkFiles ==
    ~chunk_files.exists
        \/ \A f \in DOMAIN chunk_files.files : ~startswith(f, "INFOTABLE_chunk_")

\* C13: a load of a data directory in which a file the loader reads is absent
\* (the coverpage, submission or summary file, or the positions file with no
\* chunk file to take its place) raises the missing-file error and leaves
\* the engine unloaded.
C13_MissingFileRaises ==
    /\ (/\ loaded_rows.op = "SEC13FProcessor.load_data"
        /\ \/ coverpage_file = NoFile
           \/ submission_file = NoFile
           \/ summarypage_file = NoFile
           \/ (infotable_file = NoFile /\ NoChunkFiles))
          => loaded_rows.raised = "FileNotFoundError"
    /\ (/\ loaded_rows.op = "HedgeFundSearchEngine.load_data"
        /\ \/ coverpage_file = NoFile
           \/ (infotable_file = NoFile /\ NoChunkFiles))
          => (loaded_rows.raised = "FileNotFoundError" /\ ~loaded)

\* C29: the processor's tables are loaded all or nothing: whenever the
\* positions table is set, so that the queries skip the load, the coverpage,
\* submission and summary tables are set too, and a query that skipped the
\* load does not fail on a table that is unset.
C29_AllOrNothing ==
    loaded_rows.op \in {"SEC13FProcessor.load_data", "SEC13FProcessor.get_summary_stats"} =>
        /\ loaded_rows.processor.infotable_df # None
              => /\ loaded_rows.processor.coverpage_df # None
                 /\ loaded_rows.processor.submission_df # None
                 /\ loaded_rows.processor.summarypage_df # None
        /\ (loaded_rows.op = "SEC13FProcessor.get_summary_stats" /\ loaded_rows.skipped_load)
              => loaded_rows.raised = "none"


\* C14: get_stock_sector returns a sector label, never a null value, whatever
\* the cache holds and whatever the quote service and the language model
\* come to.
C14_SectorNeverNull ==
    resolved.op = "get_stock_sector" =>
        /\ resolved.value \notin {None, NaN}
        /\ strip(resolved.value) # ""


-----------------------------------------------------------------------------
(* get_stock_info_batch (utils/yf_util.py) *)

\* What yf.Ticker(ticker).history(period) comes to: it raises, or it is a
\* frame with these closing prices.
HistoryRaises == [raises |-> TRUE]
History(closes) == [raises |-> FALSE, Close |-> closes]

\* The text of a float whose value is the integer n
float(n) == IF n < 0 THEN "-" \o str(0 - n) \o ".0" ELSE str(n) \o ".0"

\* get_stock_price_change(ticker, period): None or the percentage change
get_stock_price_change(hist) ==
    IF hist.raises THEN None
    ELSE IF Len(hist.Close) < 2 THEN None
    ELSE LET first_price == hist.Close[1]
             last_price == hist.Close[Len(hist.Close)]
         IN  IF first_price = 0
             THEN (IF last_price = 0 THEN NaN ELSE "inf")
             ELSE float(((last_price - first_price) * 100) \div first_price)

\* company_names.get(ticker) if company_names else None
CompanyNameOf(company_names, ticker) ==
    IF DOMAIN company_names = {} THEN None
    ELSE IF ticker \in DOMAIN company_names THEN company_names[ticker] ELSE None

\* get_stock_sector with a company name that is no str (a missing value of
\* the table it was taken from): company_name.upper() raises at line 87, and
\* again in the handler at line 112, unless the call returned before.
SectorRaises(tm, company_name, info) ==
    /\ company_name = NaN
    /\ LET csv_sector == get_sector(tm.mapping, company_name)
       IN  ~(Truthy(csv_sector) /\ csv_sector # "Unknown")
    /\ (info.raises \/ ~(info.quoteType = "ETF" \/ info.category = "ETF"))

\* results[ticker] = entry, on a dict in insertion order
ResultsSet(results, ticker, entry) ==
    IF HasKey(results, ticker)
    THEN [results EXCEPT ![KeyIndex(results, ticker)].value = entry]
    ELSE Append(results, [key |-> ticker, value |-> entry])

\* The entry of the handler at lines 158-162
FailedEntry_noSector == [price_change |-> None, sector |-> None]
FailedEntry == [price_change |-> None, sector |-> "Unknown"]

\* get_stock_info_batch(tickers, company_names): the loop from position i on.
\* outcomes[i] is what the services come to for the ticker at position i.
\* It gives the dict, the cache it leaves, and the positions that raised.
RECURSIVE BatchFrom(_, _, _, _, _, _, _, _, _)
BatchFrom(i, tickers, company_names, outcomes, date, tm, cache, results, failed) ==
    IF i > Len(tickers)
    THEN [value |-> results, tm |-> tm, cache |-> cache, failed |-> failed]
    ELSE LET ticker == tickers[i]
             price_change == get_stock_price_change(outcomes[i].hist)
             company_name == CompanyNameOf(company_names, ticker)
         IN  IF SectorRaises(tm, company_name, outcomes[i].info)
             THEN BatchFrom(i + 1, tickers, company_names, outcomes, date, tm, cache,
                            ResultsSet(results, ticker, FailedEntry), failed \cup {i})
             ELSE LET r == get_stock_sector(tm, cache, ticker, company_name,
                                            outcomes[i].info, outcomes[i].llm, date)
                  IN  BatchFrom(i + 1, tickers, company_names, outcomes, date, r.tm, r.cache,
                                ResultsSet(results, ticker,
                                           [price_change |-> price_change, sector |-> r.value]),
                                failed)

get_stock_info_batch(tm, cache, tickers, company_names, outcomes, date) ==
    BatchFrom(1, tickers, company_names, outcomes, date, tm, cache, <<>>, {})

MaxBatch == 3

\* The ticker lists, the company_names arguments (None and the empty dict
\* are both <<>>), and what the services come to for one ticker.
BatchTickers == UNION {[1..n -> {"ACM", "SPY"}] : n \in 0..MaxBatch}
BatchCompanyNames ==
    {<<>>,
     [t \in {"ACM"} |-> "Acme Corp"],
     [t \in {"ACM", "SPY"} |-> IF t = "ACM" THEN "Acme Corp" ELSE "Spy Trust"],
     [t \in {"ACM", "SPY"} |-> IF t = "ACM" THEN NaN ELSE "Spy Corp"]}
BatchOutcomes ==
    {[hist |-> HistoryRaises, info |-> InfoRaises, llm |-> NoCredential],
     [hist |-> History(<<100, 105, 110>>), info |-> Info("EQUITY", None, "Energy", None),
      llm |-> NoCredential],
     [hist |-> History(<<100>>), info |-> Info("EQUITY", None, None, None),
      llm |-> Answer(" Technology")]}

BatchInit ==
    /\ csv_file \in {NoFile,
                     to_csv(<<MappingRow("Acme Corp", "ACM", "Unknown", "auto", strftime(0))>>)}
    /\ mapping = load_mapping(csv_file)
    /\ today = 0
    /\ caller = <<>>
    /\ resolved = NoCall
    /\ openai_cache = [ticker |-> <<>>, sector |-> <<>>]
    /\ EngineIdle
    /\ DiskIdle

\* get_stock_info_batch(tickers, company_names)
GetStockInfoBatch ==
    /\ resolved.op = "none"
    /\ \E tickers \in BatchTickers, company_names \in BatchCompanyNames :
         \E outcomes \in [DOMAIN tickers -> BatchOutcomes] :
            \E r \in {get_stock_info_batch(TickerMappingNow, openai_cache, tickers,
                                           company_names, outcomes, strftime(today))} :
               /\ SetTickerMapping(r.tm)
               /\ openai_cache' = r.cache
               /\ resolved' = [op |-> "get_stock_info_batch", tickers |-> tickers,
                               company_names |-> company_names, outcomes |-> outcomes,
                               value |-> r.value, failed |-> r.failed,
                               before |-> [tm |-> TickerMappingNow, cache |-> openai_cache]]
    /\ UNCHANGED today
    /\ CacheFrame

BatchNext ==
    \/ GetStockInfoBatch
    \/ CacheReturn

BatchSpec == BatchInit /\ [][BatchNext]_vars


\* The distinct elements of a list, in the order of their first occurrence
FirstOccurrences(list) ==
    SelectSeq([i \in DOMAIN list |-> [at |-> i, ticker |-> list[i]]],
              LAMBDA e : \A j \in 1..(e.at - 1) : list[j] # e.ticker)

BatchKeys(results) == [i \in DOMAIN results |-> results[i].key]
BatchEntry(results, ticker) == results[KeyIndex(results, ticker)].value

\* The position of the last occurrence of the ticker in the list
LastPosition(list, ticker) ==
    CHOOSE i \in DOMAIN list : list[i] = ticker /\ \A j \in DOMAIN list : j > i => list[j] # ticker

\* The batch the call would have been with the positions that raised left out
WithoutFailed ==
    LET kept == DOMAIN resolved.tickers \ resolved.failed
    IN  get_stock_info_batch(resolved.before.tm, resolved.before.cache,
                             SubSequence(resolved.tickers, kept, 1), resolved.company_names,
                             SubSequence(resolved.outcomes, kept, 1), strftime(today))

\* C15: get_stock_info_batch returns one entry per distinct ticker of the
\* list, in the order of first occurrence; a ticker whose processing raised
\* has the entry {price_change: None, sector: "Unknown"}; and every other
\* ticker has the entry, and the cache the state, that the batch without the
\* raising positions gives.
C15_BatchIsolation ==
    resolved.op = "get_stock_info_batch" =>
        /\ BatchKeys(resolved.value) =
              [i \in DOMAIN FirstOccurrences(resolved.tickers) |->
                  FirstOccurrences(resolved.tickers)[i].ticker]
        /\ \A i \in DOMAIN resolved.tickers :
              IF LastPosition(resolved.tickers, resolved.tickers[i]) \in resolved.failed
              THEN BatchEntry(resolved.value, resolved.tickers[i])
                      = [price_change |-> None, sector |-> "Unknown"]
              ELSE BatchEntry(resolved.value, resolved.tickers[i])
                      = BatchEntry(WithoutFailed.value, resolved.tickers[i])
        /\ WithoutFailed.tm = TickerMappingNow
        /\ WithoutFailed.cache = openai_cache

\* C15 happens: a list with a ticker twice; the processing of one ticker
\* raised, and the ticker after it has a price change and a sector that the
\* call wrote to the cache.
C15_Witness ==
    /\ resolved.op = "get_stock_info_batch"
    /\ Len(resolved.tickers) = MaxBatch
    /\ Len(resolved.value) = 2
    /\ resolved.failed = {1}
    /\ resolved.value[1].value = [price_change |-> None, sector |-> "Unknown"]
    /\ resolved.value[2].value.price_change = "10.0"
    /\ resolved.value[2].value.sector = "Energy"
    /\ mapping # resolved.before.tm.mapping

=============================================================================
